---- MODULE Spec2Model ----
(***************************************************************************)
(* Model of the KLF-200 bridge daemon: the gateway session manager         *)
(* (src/lib/klf-connection.ts), the daemon's command handling and          *)
(* start/stop sequences (src/daemon.ts), the MQTT bridge                   *)
(* (src/lib/mqtt-bridge.ts), the device registry                           *)
(* (src/lib/device-registry.ts) and the validation of the configuration    *)
(* (src/lib/config.ts).                                                    *)
(*                                                                         *)
(* The daemon runs on one event loop.  Every action below is one run of    *)
(* synchronous code: from an external event (timer, MQTT message, signal,  *)
(* reply of the gateway or the broker) up to the next `await` of the task  *)
(* it resumes.  Time is not modelled: a timer that is armed may fire at    *)
(* any moment, and the delay it was armed with is recorded.                *)
(***************************************************************************)
EXTENDS Integers, Sequences, FiniteSets, TLC

(* ------------------------------ bounds --------------------------------- *)
\* Connection objects that can be alive at once (ids are recycled once
\* nothing refers to an object any more).
MaxConn == 3
\* The attempt counter is held exactly up to one attempt past the first
\* one armed with reconnectMaxDelay, and at most up to MaxAttempt; it
\* saturates there, every later attempt being armed with the same delay.
MaxAttempt == 6
\* Timers whose handle has been overwritten while they were pending.
MaxOrphans == 1
\* Publication rounds (MQTTBridge.publishAllDeviceStates) running at once.
MaxRounds == 1
\* Device and scene commands the gateway has not answered yet.
MaxCmds == 2
\* Publications of one device (MQTTBridge.publishDeviceState) started by
\* the registry that are running at once.
MaxChains == 2
\* Property-change notifications of one product; the number of the last one
\* is the time stamp of the states made from the product.
MaxStamp == 2

Nodes == {0, 1}                  \* node ids commands are addressed to
NodeSets == {{0}, {0, 1}}        \* product lists the gateway may hold
SceneIds == {0, 1}               \* scene ids commands are addressed to
SceneSets == {{0}}               \* scene lists the gateway may report
\* <<reconnectBaseDelay, reconnectMaxDelay>> in seconds
DelayConfigs == {<<5, 60>>, <<5, 5>>}
Positions == {30}                     \* integer payloads of device commands
RawPositions == {0, 500}         \* raw positions a product reports, in thousandths

Handles == 1 .. MaxConn
Null == 0
NoGateway == 0 - 1

AttemptSlots == <<"a1", "a2">>   \* reconnect timer callbacks in flight
ForcedSlots == <<"f1", "f2">>    \* handleGlobalCommand('reconnect'), one each
AttemptIds == {AttemptSlots[i] : i \in 1 .. Len(AttemptSlots)}
ForcedIds == {ForcedSlots[i] : i \in 1 .. Len(ForcedSlots)}
TaskIds == {"start", "stop", "refresh", "poll"} \cup AttemptIds \cup ForcedIds

VARIABLES
  \* KLFConnection fields
  connection, gateway, products, scenes, connected, reconnecting,
  reconnectAttempt, keepaliveTimer, reconnectTimer, shuttingDown,
  \* timers of KLFConnection beyond what the fields hold
  reconnectDelay, orphanTimers,
  \* configuration
  config,
  \* Daemon and MQTTBridge fields
  running, pollingTimer, mqttClient, mqttConnected, exited,
  \* DeviceRegistry fields: the device map and its insertion order, the ids
  \* of the scene map
  devices, order, registryScenes, dirty, saveTimer,
  \* the timers scheduleSave has armed and nothing has fired or cleared
  saveTimers,
  \* the data directory of the snapshot file, and the file
  disk, file,
  \* the gateway, its products' properties and the requests it has not
  \* answered yet
  gwSessions, gwStable, gwProducts, gwDevices, probes, cmds,
  \* what the MQTT client has accepted for the broker so far
  bus,
  \* asynchronous tasks of the daemon, each at its pending await
  tasks, rounds,
  \* what the last step did: the handler that ran, the events it emitted,
  \* the gateway requests and MQTT publications it issued, its log lines,
  \* the events the registry emitted
  last, ev, req, pub, log, rev

klfVars == <<connection, gateway, products, scenes, connected, reconnecting,
             reconnectAttempt, keepaliveTimer, reconnectTimer, shuttingDown,
             reconnectDelay, orphanTimers>>
daemonVars == <<running, pollingTimer, mqttClient, mqttConnected, exited>>
registryVars == <<devices, order, registryScenes, dirty, saveTimer, saveTimers,
                  file>>
gwVars == <<gwSessions, gwStable, gwProducts, gwDevices, probes, cmds>>
stepVars == <<last, ev, req, pub, log, rev>>
vars == <<klfVars, config, daemonVars, registryVars, disk, gwVars, bus, tasks,
          rounds, stepVars>>

Min(a, b) == IF a < b THEN a ELSE b
Max(a, b) == IF a < b THEN b ELSE a

RECURSIVE Pow2(_)
Pow2(n) == IF n <= 0 THEN 1 ELSE 2 * Pow2(n - 1)

NoProducts == [conn |-> Null, nodes |-> {}]
NoScenes == [conn |-> Null, ids |-> {}]

Kind(t) == IF t \in AttemptIds THEN "attempt"
           ELSE IF t \in ForcedIds THEN "forced" ELSE t

(* ----------------- the state synchronous code works on ------------------ *)
\* The fields one run of synchronous code reads and writes, as a record;
\* pc/h are the await the running task stops at, arg the value a reply
\* carries; saveTimer is the registry's field (set: not null) together with
\* the number of timers armed.
Cur ==
  [connection |-> connection, gateway |-> gateway, products |-> products,
   scenes |-> scenes, connected |-> connected, reconnecting |-> reconnecting,
   reconnectAttempt |-> reconnectAttempt, keepaliveTimer |-> keepaliveTimer,
   reconnectTimer |-> reconnectTimer, shuttingDown |-> shuttingDown,
   reconnectDelay |-> reconnectDelay, orphanTimers |-> orphanTimers,
   running |-> running, pollingTimer |-> pollingTimer,
   mqttClient |-> mqttClient, mqttConnected |-> mqttConnected,
   exited |-> exited, rounds |-> rounds,
   devices |-> devices, order |-> order, registryScenes |-> registryScenes,
   dirty |-> dirty, saveTimer |-> [set |-> saveTimer, armed |-> saveTimers],
   file |-> file,
   ev |-> <<>>, req |-> <<>>, pub |-> <<>>, log |-> <<>>, rev |-> <<>>,
   lost |-> FALSE, subscribe |-> FALSE,
   pc |-> "idle", h |-> Null, arg |-> {}, err |-> "", blocked |-> FALSE]

(* --------------------------- the MQTT client ---------------------------- *)
DeviceTopics == <<"state", "position", "moving">>

\* A device state: the fields DeviceRegistry.hasStateChanged compares, and
\* limitationMin, limitationMax and lastUpdate for the fields it does not
\* look at.
NoDevice ==
  [nodeId |-> 0 - 1, name |-> "", position |-> 0, targetPosition |-> 0,
   moving |-> FALSE, online |-> FALSE, error |-> "",
   limitationMin |-> 0, limitationMax |-> 0, lastUpdate |-> 0]

\* What the client has accepted so far: the first and the last payload on
\* {prefix}/status, whether a device or scene topic was published before
\* the first `online`, the kinds of topic published after an `offline`,
\* and the last payload on each device topic; and what the broker holds:
\* the retained value of {prefix}/status (the client's last publication, or
\* the will `offline` once the broker has lost the client) and whether the
\* client's session is subscribed to the command topics.
NoBus ==
  [first |-> "", status |-> "", early |-> FALSE, late |-> {},
   retained |-> "", subscribed |-> FALSE,
   dev |-> [n \in Nodes |-> [state |-> NoDevice, position |-> 0 - 1,
                              moving |-> ""]]]

Receive(b, m) ==
  LET kind == m[1][1]
      id == m[1][2]
      payload == m[2]
      b1 == [b EXCEPT !.late = IF b.status = "offline" THEN @ \cup {kind} ELSE @]
  IN CASE kind = "status" ->
            [b1 EXCEPT !.first = IF @ = "" THEN payload ELSE @,
                       !.status = payload, !.retained = payload]
       [] kind = "state" ->
            [b1 EXCEPT !.early = @ \/ b.first # "online",
                       !.dev[id].state = payload]
       [] kind = "position" ->
            [b1 EXCEPT !.early = @ \/ b.first # "online",
                       !.dev[id].position = payload]
       [] kind = "moving" ->
            [b1 EXCEPT !.early = @ \/ b.first # "online",
                       !.dev[id].moving = payload]
       [] kind = "scene" -> [b1 EXCEPT !.early = @ \/ b.first # "online"]
       [] OTHER -> b1

RECURSIVE Deliver(_, _)
Deliver(b, ms) ==
  IF ms = <<>> THEN b ELSE Deliver(Receive(b, Head(ms)), Tail(ms))

\* The broker's side of one step: a connection lost without DISCONNECT
\* publishes the will (retain: true) and, the session being clean, drops
\* its subscriptions; client.subscribe() subscribes the session.
Broker(b, lost, subscribe) ==
  IF lost THEN [b EXCEPT !.retained = "offline", !.subscribed = FALSE]
  ELSE IF subscribe THEN [b EXCEPT !.subscribed = TRUE]
  ELSE b

\* client.end() has been called and has not called back yet: the client
\* is disconnecting and refuses what it is asked to publish.
Ending == tasks["stop"].pc = "end"

Commit(w) ==
  /\ connection' = w.connection
  /\ gateway' = w.gateway
  /\ products' = w.products
  /\ scenes' = w.scenes
  /\ connected' = w.connected
  /\ reconnecting' = w.reconnecting
  /\ reconnectAttempt' = w.reconnectAttempt
  /\ keepaliveTimer' = w.keepaliveTimer
  /\ reconnectTimer' = w.reconnectTimer
  /\ shuttingDown' = w.shuttingDown
  /\ reconnectDelay' = w.reconnectDelay
  /\ orphanTimers' = w.orphanTimers
  /\ running' = w.running
  /\ pollingTimer' = w.pollingTimer
  /\ mqttClient' = w.mqttClient
  /\ mqttConnected' = w.mqttConnected
  /\ exited' = w.exited
  /\ rounds' = w.rounds
  /\ devices' = w.devices
  /\ order' = w.order
  /\ registryScenes' = w.registryScenes
  /\ dirty' = w.dirty
  /\ saveTimer' = w.saveTimer.set
  /\ saveTimers' = w.saveTimer.armed
  /\ file' = w.file
  /\ bus' = IF Ending THEN bus
            ELSE Deliver(Broker(bus, w.lost, w.subscribe), w.pub)
  /\ ev' = w.ev
  /\ req' = w.req
  /\ pub' = w.pub
  /\ log' = w.log
  /\ rev' = w.rev

\* A log line <<message, n, delay>>; n and delay are the attempt number and
\* the delay of 'Scheduling reconnection attempt', NoId elsewhere.
LogWith(w, msg, n, delay) == [w EXCEPT !.log = Append(@, <<msg, n, delay>>)]

Log(w, msg) == LogWith(w, msg, 0 - 1, 0 - 1)

\* Handles no object, task or gateway session refers to; t is the running
\* task, whose own pending handle is released by the step.
InUse(w, t) ==
  ({w.connection, w.gateway, w.products.conn, w.scenes.conn}
     \cup {tasks[u].h : u \in TaskIds \ {t}}
     \cup probes \cup {c[2] : c \in cmds} \cup gwSessions) \cap Handles

FreeHandles(w, t) == Handles \ InUse(w, t)

NewConnection(w, t) == CHOOSE c \in FreeHandles(w, t) :
                         \A d \in FreeHandles(w, t) : c <= d

\* The message is handed to the client whether or not it is connected.
publishUnchecked(w, topic, payload) ==
  [w EXCEPT !.pub = Append(@, <<topic, payload>>)]

(* ------------------------------ MQTTBridge ------------------------------ *)
\* MQTTBridge.publish up to client.publish(): the message is handed to the
\* client, or dropped with a warning when the bridge is not connected.
publish(w, topic, payload) ==
  IF ~w.mqttClient \/ ~w.mqttConnected
    THEN Log(w, "Cannot publish")
    ELSE [w EXCEPT !.pub = Append(@, <<topic, payload>>)]

\* Topics are <<kind, id>> for {prefix}/status, {prefix}/errors,
\* {prefix}/devices/id/(state|position|moving) and {prefix}/scenes/id/state.
NoId == 0 - 1

publishStatus(w, status) == publish(w, <<"status", NoId>>, status)

\* MQTTBridge.subscribeToCommands: the four command topics in one call.
subscribeToCommands(w) ==
  IF ~w.mqttClient THEN w ELSE [w EXCEPT !.subscribe = TRUE]

\* The client's 'connect' handler, at the first connection and at every
\* reconnection of the client.
onConnect(w) ==
  subscribeToCommands(
    Log([w EXCEPT !.mqttConnected = TRUE], "Connected to MQTT broker"))

publishError(w, message) == publish(w, <<"errors", NoId>>, message)

RECURSIVE SortedSeq(_)
SortedSeq(S) ==
  IF S = {} THEN <<>>
  ELSE LET m == CHOOSE x \in S : \A y \in S : x <= y
       IN <<m>> \o SortedSeq(S \ {m})

\* Only the full state of each device is published.
StateItems(ns) == [i \in 1 .. Len(ns) |-> <<ns[i], "state">>]

RECURSIVE DeviceItems(_)
DeviceItems(ns) ==
  IF ns = <<>> THEN <<>>
  ELSE [i \in 1 .. 3 |-> <<Head(ns), DeviceTopics[i]>>] \o DeviceItems(Tail(ns))

RECURSIVE SceneItems(_)
SceneItems(ids) ==
  IF ids = <<>> THEN <<>>
  ELSE <<<<Head(ids), "scene">>>> \o SceneItems(Tail(ids))

ItemTopic(item) == <<item[2], item[1]>>

\* The payload of an item of the loop r: the DeviceStateMessage,
\* String(state.position) or String(state.moving) of the state the loop was
\* started with; the scene message is not looked into.
ItemPayload(r, item) ==
  CASE item[2] = "state" -> r.val[item[1]]
    [] item[2] = "position" -> r.val[item[1]].position
    [] item[2] = "moving" -> IF r.val[item[1]].moving THEN "true" ELSE "false"
    [] OTHER -> "retained"

\* The loop of publishAllDeviceStates / publishAllSceneStates from the
\* item at the head of r.queue up to the next publish that waits for the
\* broker: an item published while the bridge is not connected is dropped
\* and the loop goes on.  Returns the round; a round with an empty queue
\* has returned.
RECURSIVE RunRound(_, _)
RunRound(w, r) ==
  IF r.queue = <<>> THEN [w |-> w, r |-> r]
  ELSE IF ~w.mqttClient \/ ~w.mqttConnected
    THEN RunRound(Log(w, "Cannot publish"),
                  [r EXCEPT !.queue = Tail(@), !.dropped = TRUE])
    ELSE [w |-> publish(w, ItemTopic(Head(r.queue)),
                        ItemPayload(r, Head(r.queue))),
          r |-> [r EXCEPT !.sent = @ \cup {Head(r.queue)}]]

\* The loops of w.rounds that publish one device for the registry
\* (chain = TRUE), or all devices or scenes of a discovery.
Running(w, chain) ==
  Cardinality({i \in 1 .. Len(w.rounds) :
                 (w.rounds[i].src = "registry") = chain})

\* A publication loop over the states val is started; it stays in w.rounds
\* while it waits for the broker.
StartRound(w, items, src, val) ==
  LET res == RunRound(w, [queue |-> items, all |-> items, sent |-> {},
                          dropped |-> FALSE, src |-> src, val |-> val])
      limit == IF src = "registry" THEN MaxChains ELSE MaxRounds
  IN IF res.r.queue = <<>> THEN res.w
     ELSE IF Running(res.w, src = "registry") >= limit
       THEN [res.w EXCEPT !.blocked = TRUE]
     ELSE [res.w EXCEPT !.rounds = Append(@, res.r)]

\* states: the DeviceState of each node of the list, by node id
publishAllDeviceStates(w, states, src) ==
  StartRound(w, DeviceItems(SortedSeq(DOMAIN states)), src, states)

publishDeviceState(w, state) ==
  StartRound(w, DeviceItems(<<state.nodeId>>), "registry",
             [n \in {state.nodeId} |-> state])

publishAllSceneStates(w, ids, src) ==
  StartRound(w, SceneItems(SortedSeq(ids)), src, <<>>)

(* ------------------------------- strings -------------------------------- *)
\* Strings are sequences of characters.
Str(text) ==
  CASE text = "open" -> <<"o", "p", "e", "n">>
    [] text = "close" -> <<"c", "l", "o", "s", "e">>
    [] text = "stop" -> <<"s", "t", "o", "p">>

Digits == <<"0", "1", "2", "3", "4", "5", "6", "7", "8", "9">>

IsDigit(ch) == \E i \in 1 .. 10 : Digits[i] = ch

DigitValue(ch) == (CHOOSE i \in 1 .. 10 : Digits[i] = ch) - 1

IsSpace(ch) == ch = " "

LowerOf(ch) ==
  CASE ch = "O" -> "o" [] ch = "P" -> "p" [] ch = "E" -> "e" [] ch = "N" -> "n"
    [] ch = "S" -> "s" [] ch = "T" -> "t" [] ch = "C" -> "c" [] ch = "L" -> "l"
    [] OTHER -> ch

toLowerCase(str) == [i \in 1 .. Len(str) |-> LowerOf(str[i])]

RECURSIVE TrimStart(_)
TrimStart(str) ==
  IF str # <<>> /\ IsSpace(Head(str)) THEN TrimStart(Tail(str)) ELSE str

RECURSIVE TrimEnd(_)
TrimEnd(str) ==
  IF str # <<>> /\ IsSpace(str[Len(str)])
    THEN TrimEnd(SubSeq(str, 1, Len(str) - 1)) ELSE str

trim(str) == TrimEnd(TrimStart(str))

\* The value of the longest prefix of digits, after the digits seen so far.
RECURSIVE DigitsValue(_, _)
DigitsValue(str, acc) ==
  IF str # <<>> /\ IsDigit(Head(str))
    THEN DigitsValue(Tail(str), 10 * acc + DigitValue(Head(str)))
    ELSE acc

NaN == [isNaN |-> TRUE, value |-> 0]

\* parseInt(str, 10): leading white space is skipped, a sign is taken, the
\* digits up to the first other character are the number; NaN without a
\* digit.
parseInt(str) ==
  LET s1 == TrimStart(str)
      signed == s1 # <<>> /\ Head(s1) \in {"+", "-"}
      s2 == IF signed THEN Tail(s1) ELSE s1
  IN IF s2 = <<>> \/ ~IsDigit(Head(s2)) THEN NaN
     ELSE [isNaN |-> FALSE,
           value |-> IF signed /\ Head(s1) = "-"
                       THEN 0 - DigitsValue(s2, 0) ELSE DigitsValue(s2, 0)]

(* ---------------------------- DeviceRegistry ---------------------------- *)
\* The time of the update is compared as well.
hasStateChangedOrTime(prev, curr) ==
  \/ prev.position # curr.position
  \/ prev.targetPosition # curr.targetPosition
  \/ prev.moving # curr.moving
  \/ prev.online # curr.online
  \/ prev.error # curr.error
  \/ prev.name # curr.name
  \/ prev.lastUpdate # curr.lastUpdate

\* The name is not compared.
hasStateChangedButName(prev, curr) ==
  \/ prev.position # curr.position
  \/ prev.targetPosition # curr.targetPosition
  \/ prev.moving # curr.moving
  \/ prev.online # curr.online
  \/ prev.error # curr.error

hasStateChanged(prev, curr) ==
  \/ prev.position # curr.position
  \/ prev.targetPosition # curr.targetPosition
  \/ prev.moving # curr.moving
  \/ prev.online # curr.online
  \/ prev.error # curr.error
  \/ prev.name # curr.name

\* A timer is armed whether or not one is armed already.
scheduleSaveAgain(w) ==
  [w EXCEPT !.saveTimer = [set |-> TRUE, armed |-> @.armed + 1]]

\* scheduleSave arms the debounce timer unless it is armed already.
scheduleSave(w) ==
  [w EXCEPT !.saveTimer = IF @.set THEN @
                          ELSE [set |-> TRUE, armed |-> @.armed + 1]]

markDirty(w) == scheduleSave([w EXCEPT !.dirty = TRUE])

\* DeviceRegistry.emit('deviceStateChanged'): the event <<name, previous,
\* current>> is recorded and the daemon's listener publishes the state.
EmitStateChanged(w, previousState, state) ==
  publishDeviceState(
    [w EXCEPT !.rev = Append(@, <<"deviceStateChanged", previousState, state>>)],
    state)

\* 'devicesUpdated' and 'scenesUpdated' have no listener.
EmitUpdated(w, name) ==
  [w EXCEPT !.rev = Append(@, <<name, NoDevice, NoDevice>>)]

\* this.devices.set(state.nodeId, state): a key the map holds keeps its place
\* in the map's order, a new key goes to the end.
MapSet(w, state) ==
  [w EXCEPT !.devices[state.nodeId] = state,
            !.order = IF \E i \in 1 .. Len(@) : @[i] = state.nodeId
                        THEN @ ELSE Append(@, state.nodeId)]

\* getAllDevices: Array.from(this.devices.values())
getAllDevices(w) == [i \in 1 .. Len(w.order) |-> w.devices[w.order[i]]]

updateDevice(w, state) ==
  LET previousState == w.devices[state.nodeId]
  IN IF previousState # NoDevice /\ ~hasStateChanged(previousState, state)
       THEN w
       ELSE EmitStateChanged(
              markDirty(MapSet(w, state)), previousState, state)

RECURSIVE UpdateEach(_, _, _)
UpdateEach(w, states, ns) ==
  IF ns = <<>> THEN w
  ELSE LET state == states[Head(ns)]
           previousState == w.devices[state.nodeId]
       IN IF previousState = NoDevice \/ hasStateChanged(previousState, state)
            THEN UpdateEach(
                   EmitStateChanged(MapSet(w, state), previousState, state),
                   states, Tail(ns))
            ELSE UpdateEach(w, states, Tail(ns))

updateDevices(w, states) ==
  EmitUpdated(markDirty(UpdateEach(w, states, SortedSeq(DOMAIN states))),
              "devicesUpdated")

\* The scenes are held by their ids.
updateScenes(w, ids) ==
  EmitUpdated(markDirty([w EXCEPT !.registryScenes = @ \cup ids]),
              "scenesUpdated")

\* String(n) of an integer n >= 0, the key Object.fromEntries gives an entry
RECURSIVE String(_)
String(n) ==
  IF n < 10 THEN <<Digits[n + 1]>>
  ELSE String(n \div 10) \o <<Digits[(n % 10) + 1]>>

\* The date is written without its time of day.
toDateString(stamp) == String(0) \o <<"Z">>

\* Date.toISOString, which JSON.stringify calls: the time as text, and new
\* Date(text), which reads it back.
toISOString(stamp) == String(stamp) \o <<"Z">>

NewDate(text) == DigitsValue(text, 0)

\* The file at the snapshot path: absent, a JSON document, or the leading
\* part of one.  The document holds the entries <<key, state>> of the
\* devices, the time of each state as text, and the keys of the scenes.
NoFile == [kind |-> "absent", devices |-> {}, scenes |-> {}]

Stored(w) == {n \in Nodes : w.devices[n] # NoDevice}

\* JSON.stringify({devices: Object.fromEntries(this.devices), scenes: ...})
Stringify(w) ==
  [kind |-> "document",
   devices |-> {<<String(n), [w.devices[n] EXCEPT !.lastUpdate = toISOString(@)]>> :
                  n \in Stored(w)},
   scenes |-> {String(i) : i \in w.registryScenes}]

Truncated(doc) == [doc EXCEPT !.kind = "partial"]

NoRegistry ==
  [devices |-> [n \in Nodes |-> NoDevice], order |-> <<>>, scenes |-> {}]

\* The entry of the document whose key reads as n.
EntryOf(f, n) == CHOOSE e \in f.devices : parseInt(e[1]).value = n

\* DeviceRegistry.load, which the constructor calls: nothing is restored
\* without a file or when JSON.parse throws; Object.entries yields integer
\* keys in ascending order.  No event is emitted and dirty is not set.
load(f) ==
  IF f.kind # "document" THEN NoRegistry
  ELSE LET ids == {parseInt(e[1]).value : e \in f.devices}
       IN [devices |-> [n \in Nodes |->
                          IF n \in ids
                            THEN [EntryOf(f, n)[2]
                                    EXCEPT !.lastUpdate = NewDate(@)]
                            ELSE NoDevice],
           order |-> SortedSeq(ids),
           scenes |-> {parseInt(k).value : k \in f.scenes}]

\* DeviceRegistry.save.  The data directory is there ("ok"), there but
\* not writable ("readonly": writeFileSync throws inside the try block), or
\* missing and not to be created ("gone": mkdirSync throws before the try
\* block, w.err is the exception that leaves save).
save(w) ==
  CASE disk = "ok" -> Log([w EXCEPT !.file = Stringify(w), !.dirty = FALSE],
                          "Persisted data saved")
    [] disk = "readonly" -> Log(w, "Failed to save persisted data")
    [] OTHER -> [w EXCEPT !.err = "mkdir"]

\* DeviceRegistry.flush, which destroy calls
flush(w) ==
  LET w1 == [w EXCEPT !.saveTimer = IF @.set
                                      THEN [set |-> FALSE, armed |-> @.armed - 1]
                                      ELSE @]
  IN IF w1.dirty THEN save(w1) ELSE w1

(* --------------------- KLFConnection: device states --------------------- *)
\* The properties of a product the states are made from.  Raw positions
\* are held in thousandths (raw 0.5 is 500); LimitationMinRaw and
\* LimitationMaxRaw are arrays, empty when the gateway reports none; stamp
\* is the number of the product's last property-change notification.
ProductOf(current, target, limitMin, limitMax, stamp) ==
  [Name |-> "blind", CurrentPosition |-> current, TargetPosition |-> target,
   RunStatus |-> 0, State |-> 1, StatusReply |-> 0,
   LimitationMinRaw |-> limitMin, LimitationMaxRaw |-> limitMax,
   stamp |-> stamp]

\* A product at rest at raw that reports no limitation.
Product(raw, stamp) == ProductOf(raw, raw, <<>>, <<>>, stamp)

\* Math.round(x / 10): the nearest integer, a half rounded up.
Round10(x) == (x + 5) \div 10

\* Math.round((1 - klfPosition) * 100)
klfPositionToPercent(klfPosition) == Round10(1000 - klfPosition)

productToDeviceState(nodeId, product) ==
  LET limitMin == IF product.LimitationMinRaw = <<>> THEN 0
                  ELSE product.LimitationMinRaw[1]
      limitMax == IF product.LimitationMaxRaw = <<>> THEN 1000
                  ELSE product.LimitationMaxRaw[1]
  IN [nodeId |-> nodeId, name |-> product.Name,
      position |-> klfPositionToPercent(product.CurrentPosition),
      targetPosition |-> klfPositionToPercent(product.TargetPosition),
      moving |-> product.RunStatus # 0,
      online |-> product.State = 1,
      error |-> IF product.StatusReply # 0 THEN "Status" ELSE "",
      limitationMin |-> klfPositionToPercent(limitMin),
      limitationMax |-> klfPositionToPercent(limitMax),
      lastUpdate |-> product.stamp]

\* The states discoverDevices and getDeviceStates make of the products.
DeviceStates(nodes) ==
  [n \in nodes |-> productToDeviceState(n, gwDevices[n])]

(* ------------------ Daemon.setupEventHandlers ---------------------------- *)
\* The listener of 'disconnected' publishes the status `offline`.
EmitOfflineOnDisconnect(w, e, src) ==
  LET w1 == [w EXCEPT !.ev = Append(@, e)]
  IN CASE e[1] = "connected" -> publishStatus(w1, "online")
       [] e[1] = "disconnected" -> publishStatus(w1, "offline")
       [] e[1] = "error" -> publishError(w1, "KLF-200 error")
       [] e[1] = "devicesDiscovered" ->
            LET w2 == updateDevices(w1, DeviceStates(e[2]))
            IN IF config.publishOnStartup
                 THEN publishAllDeviceStates(w2, DeviceStates(e[2]), src)
                 ELSE w2
       [] e[1] = "scenesDiscovered" ->
            LET w2 == updateScenes(w1, e[2])
            IN IF config.publishOnStartup
                 THEN publishAllSceneStates(w2, e[2], src) ELSE w2
       [] OTHER -> w1

\* KLFConnection.emit(e): the event <<name, ids, error>> is recorded and
\* the daemon's listener for it runs synchronously.
Emit(w, e, src) ==
  LET w1 == [w EXCEPT !.ev = Append(@, e)]
  IN CASE e[1] = "connected" -> publishStatus(w1, "online")
       [] e[1] = "disconnected" -> publishError(w1, "Connection lost")
       [] e[1] = "error" -> publishError(w1, "KLF-200 error")
       [] e[1] = "devicesDiscovered" ->
            LET w2 == updateDevices(w1, DeviceStates(e[2]))
            IN IF config.publishOnStartup
                 THEN publishAllDeviceStates(w2, DeviceStates(e[2]), src)
                 ELSE w2
       [] e[1] = "scenesDiscovered" ->
            LET w2 == updateScenes(w1, e[2])
            IN IF config.publishOnStartup
                 THEN publishAllSceneStates(w2, e[2], src) ELSE w2
       [] OTHER -> w1

(* ----------------------------- KLFConnection ---------------------------- *)
\* The delay doubled once too often: base * 2^n.
ReconnectDelayFromTwice(n) == Min(config.base * Pow2(n), config.max)

\* Math.min(reconnectBaseDelay * Math.pow(2, n - 1), reconnectMaxDelay)
ReconnectDelay(n) == Min(config.base * Pow2(n - 1), config.max)

stopKeepalive(w) == [w EXCEPT !.keepaliveTimer = FALSE]

startKeepalive(w) == [stopKeepalive(w) EXCEPT !.keepaliveTimer = TRUE]

\* reconnectDelay is the delay of the timer this.reconnectTimer refers to
\* while that timer is pending, and 0 otherwise.
stopReconnect(w) ==
  [w EXCEPT !.reconnectTimer = "null", !.reconnectDelay = 0,
            !.reconnecting = FALSE]

\* The first attempt number whose delay is reconnectMaxDelay.
RECURSIVE FirstCapped(_)
FirstCapped(n) ==
  IF n >= MaxAttempt \/ ReconnectDelay(n) >= config.max THEN n
  ELSE FirstCapped(n + 1)

AttemptCap == Min(MaxAttempt, FirstCapped(1) + 1)

scheduleReconnect(w) ==
  IF w.shuttingDown \/ w.reconnecting THEN w
  ELSE LET n == Min(w.reconnectAttempt + 1, AttemptCap)
           orphaned == w.reconnectTimer = "live"
           delay == ReconnectDelay(n)
       IN LogWith([w EXCEPT !.reconnecting = TRUE,
                            !.reconnectAttempt = n,
                            !.reconnectDelay = delay,
                            !.orphanTimers = IF orphaned THEN @ + 1 ELSE @,
                            !.blocked = @ \/ (orphaned /\ w.orphanTimers >= MaxOrphans),
                            !.reconnectTimer = "live"],
                  "Scheduling reconnection attempt", n, delay)

handleConnectionLoss(w) ==
  IF w.shuttingDown THEN w
  ELSE LET w1 == Emit(stopKeepalive([w EXCEPT !.connected = FALSE]),
                      <<"disconnected", {}, "Connection lost">>, "klf")
       IN IF ~w1.reconnecting THEN scheduleReconnect(w1) ELSE w1

\* A request handed to the klf-200-api library: <<operation, Connection,
\* node or scene id, raw position>> (NoId where there is none).
Request(w, op, h) == [w EXCEPT !.req = Append(@, <<op, h, NoId, NoId>>)]

Await(w, pc, h) == [w EXCEPT !.pc = pc, !.h = h]

\* The synchronous code of task t from a program point up to its next
\* await (w.pc, w.h) or its end (w.pc = "idle", "done" or "failed").
\* Points are named after the method entered or the await resumed.
RECURSIVE Run(_, _, _)
Run(w, t, point) ==
  CASE
  (* ---- KLFConnection.connect ---- *)
       point = "connect" ->
         IF w.connected THEN Run(Log(w, "Already connected"), t, "connectReturn")
         ELSE IF FreeHandles(w, t) = {} THEN [w EXCEPT !.blocked = TRUE]
         ELSE LET c == NewConnection(w, t)
              IN Await(Request([w EXCEPT !.connection = c], "login", c),
                       "login", c)
    [] point = "loginOk" ->
         LET w1 == [w EXCEPT !.gateway = w.connection]
         IN IF w.connection = Null
              THEN Run(w1, t, "connectCatch")
              ELSE Await(Request(w1, "enableHouseStatusMonitor", w.connection),
                         "enable", w.connection)
    [] point = "enableOk" ->
         Run(Emit(startKeepalive([w EXCEPT !.connected = TRUE,
                                            !.reconnectAttempt = 0]),
                  <<"connected", {}, "">>, t),
             t, "connectReturn")
    [] point = "connectCatch" ->
         Run(Emit(Log([w EXCEPT !.connected = FALSE], "Failed to connect"),
                  <<"error", {}, "Failed to connect">>, t),
             t, "throw")
    [] point = "connectReturn" ->
         IF Kind(t) = "attempt" THEN Run(w, t, "discoverDevices")
         ELSE IF config.autoDiscovery THEN Run(w, t, "discoverDevices")
         ELSE Run(w, t, "finish")
  (* ---- KLFConnection.discoverDevices / discoverScenes / refresh ---- *)
    [] point = "refresh" ->
         IF ~w.connected THEN Run(w, t, "throw")
         ELSE Run(w, t, "discoverDevices")
    [] point = "discoverDevices" ->
         IF w.connection = Null \/ ~w.connected THEN Run(w, t, "throw")
         ELSE Await(Request(w, "createProducts", w.connection),
                    "devices", w.connection)
    [] point = "devicesOk" ->
         LET w1 == Emit([w EXCEPT !.products = [conn |-> w.h, nodes |-> w.arg]],
                        <<"devicesDiscovered", w.arg, "">>, t)
         IN IF Kind(t) = "poll" THEN Run(w1, t, "finish")
            ELSE Run(w1, t, "discoverScenes")
    [] point = "discoverScenes" ->
         IF w.connection = Null \/ ~w.connected THEN Run(w, t, "throw")
         ELSE Await(Request(w, "createScenes", w.connection),
                    "scenes", w.connection)
    [] point = "scenesOk" ->
         Run(Emit([w EXCEPT !.scenes = [conn |-> w.h, ids |-> w.arg]],
                  <<"scenesDiscovered", w.arg, "">>, t),
             t, "finish")
  (* ---- KLFConnection.disconnect ---- *)
    [] point = "disconnect" ->
         LET w1 == [stopReconnect(stopKeepalive([w EXCEPT !.shuttingDown = TRUE]))
                      EXCEPT !.gateway = NoGateway, !.products = NoProducts,
                             !.scenes = NoScenes]
         IN IF w1.connection # Null
              THEN Await(Request(w1, "logout", w1.connection),
                         "logout", w1.connection)
              ELSE Run(w1, t, "disconnectTail")
    [] point = "disconnectTail" ->
         LET w1 == Emit([w EXCEPT !.connected = FALSE],
                        <<"disconnected", {}, "">>, t)
         IN IF Kind(t) = "forced"
              \* KLFConnection.reconnect
              THEN Run([w1 EXCEPT !.shuttingDown = FALSE], t, "connect")
              \* Daemon.stop
              ELSE Run(w1, t, "mqttDisconnect")
  (* ---- reconnect timer callback of scheduleReconnect ---- *)
    [] point = "callback" ->
         IF w.connection # Null
           THEN Await(Request(w, "logout", w.connection), "logout", w.connection)
           ELSE Run(w, t, "attemptBody")
    [] point = "attemptBody" ->
         Run([w EXCEPT !.products = NoProducts, !.scenes = NoScenes],
             t, "connect")
  (* ---- the await of logoutAsync resumes ---- *)
    [] point = "logoutDone" ->
         IF Kind(t) = "attempt"
           THEN Run([w EXCEPT !.connection = Null], t, "attemptBody")
           ELSE Run(Log([w EXCEPT !.connection = Null], "Logged out"),
                    t, "disconnectTail")
  (* ---- Daemon.start ---- *)
    [] point = "start" ->
         Await([w EXCEPT !.running = TRUE, !.mqttClient = TRUE], "mqtt", Null)
    [] point = "mqttOk" ->
         LET w1 == publishStatus(
                     subscribeToCommands([w EXCEPT !.mqttConnected = TRUE]),
                     "online")
         IN Await(w1, "online", Null)
    [] point = "onlineOk" -> Run(w, t, "connect")
  (* ---- Daemon.stop after klf.disconnect(): MQTTBridge.disconnect ---- *)
    [] point = "mqttDisconnect" ->
         IF ~w.mqttClient THEN Run(w, t, "stopTail")
         ELSE IF w.mqttConnected
           THEN Await(publishStatus(w, "offline"), "offline", Null)
           ELSE Run(publishStatus(w, "offline"), t, "offlineOk")
    [] point = "offlineOk" -> Await(w, "end", Null)
    [] point = "offlineFail" -> Run(Log(w, "Error disconnecting from MQTT"),
                                    t, "stopTail")
    [] point = "endDone" ->
         Run(Log([w EXCEPT !.mqttConnected = FALSE, !.mqttClient = FALSE],
                 "Disconnected from MQTT broker"), t, "stopTail")
    [] point = "stopTail" ->
         \* registry.destroy(); main: process.exit(0), or process.exit(1)
         \* when stop() has thrown
         LET w1 == flush(w)
         IN IF w1.err # ""
              THEN [Log(w1, "Error during shutdown")
                      EXCEPT !.pc = "failed", !.exited = TRUE]
              ELSE [Log(w1, "Daemon stopped") EXCEPT !.pc = "done",
                                                     !.exited = TRUE]
  (* ---- the end of the task's try block ---- *)
    [] point = "finish" ->
         CASE Kind(t) = "start" ->
                [Log([w EXCEPT !.pollingTimer = config.pollingEnabled],
                     "Daemon started successfully") EXCEPT !.pc = "done"]
           [] Kind(t) = "attempt" ->
                [w EXCEPT !.reconnecting = FALSE, !.pc = "idle"]
           [] Kind(t) = "forced" -> [w EXCEPT !.pc = "done"]
           \* the polling callback: registry.updateDevices(devices)
           [] Kind(t) = "poll" ->
                [updateDevices(w, DeviceStates(w.products.nodes))
                   EXCEPT !.pc = "idle"]
           [] OTHER -> [w EXCEPT !.pc = "idle"]
  (* ---- an exception reaches the task's catch block ---- *)
    [] point = "throw" ->
         CASE Kind(t) = "start" ->
                [Log(w, "Failed to start daemon") EXCEPT !.pc = "failed"]
           [] Kind(t) = "attempt" ->
                [scheduleReconnect(Log([w EXCEPT !.reconnecting = FALSE],
                                       "Reconnection attempt failed"))
                   EXCEPT !.pc = "idle"]
           [] Kind(t) = "forced" ->
                [Log(w, "Failed to execute global command") EXCEPT !.pc = "done"]
           [] Kind(t) = "refresh" ->
                [Log(w, "Failed to execute global command") EXCEPT !.pc = "idle"]
           [] Kind(t) = "poll" ->
                [Log(w, "Polling failed") EXCEPT !.pc = "idle"]
           [] OTHER -> [w EXCEPT !.pc = "idle"]

(* ----------------- commands: KLFConnection and Daemon ------------------- *)
\* The raw positions of commands are held in hundredths: raw 0.30 is 30.
\* The percentage taken for the raw position, not inverted.
percentAsKlfPosition(percent) == percent

\* 1 - percent / 100
percentToKlfPosition(percent) == 100 - percent

Throw(w, message) == [w EXCEPT !.err = message]

Command(w, op, h, id, raw) ==
  [w EXCEPT !.req = Append(@, <<op, h, id, raw>>)]

\* The position is set without looking the node up.
setDevicePositionUnchecked(w, nodeId, position) ==
  IF w.products = NoProducts \/ ~w.connected
    THEN Throw(w, "Not connected to KLF-200")
  ELSE Command(w, "setTargetPosition", w.products.conn, nodeId,
               percentToKlfPosition(Max(0, Min(100, position))))

setDevicePosition(w, nodeId, position) ==
  IF w.products = NoProducts \/ ~w.connected
    THEN Throw(w, "Not connected to KLF-200")
  ELSE IF nodeId \notin w.products.nodes THEN Throw(w, "not found")
  ELSE LET clampedPosition == Max(0, Min(100, position))
       IN Command(w, "setTargetPosition", w.products.conn, nodeId,
                  percentToKlfPosition(clampedPosition))

stopDevice(w, nodeId) ==
  IF w.products = NoProducts \/ ~w.connected
    THEN Throw(w, "Not connected to KLF-200")
  ELSE IF nodeId \notin w.products.nodes THEN Throw(w, "not found")
  ELSE Command(w, "stop", w.products.conn, nodeId, NoId)

runScene(w, sceneId) ==
  IF w.scenes = NoScenes \/ ~w.connected
    THEN Throw(w, "Not connected to KLF-200")
  ELSE IF sceneId \notin w.scenes.ids THEN Throw(w, "not found")
  ELSE Command(w, "run", w.scenes.conn, sceneId, NoId)

\* DeviceCommand = 'open' | 'close' | 'stop' | number
NoCommand == [kind |-> "", value |-> 0]

DeviceCommands ==
  {[kind |-> k, value |-> 0] : k \in {"open", "close", "stop"}}
    \cup {[kind |-> "position", value |-> p] : p \in Positions}

\* A failed command is taken for a loss of the connection.
handleDeviceCommandAsLoss(w, nodeId, command) ==
  LET w1 == CASE command.kind = "open" -> setDevicePosition(w, nodeId, 100)
              [] command.kind = "close" -> setDevicePosition(w, nodeId, 0)
              [] command.kind = "stop" -> stopDevice(w, nodeId)
              [] command.kind = "position" ->
                   setDevicePosition(w, nodeId, command.value)
              [] OTHER -> w
  IN IF w1.err # ""
       THEN publishError(
              handleConnectionLoss(Log(w1, "Failed to execute device command")),
              "Command failed")
       ELSE w1

handleDeviceCommand(w, nodeId, command) ==
  LET w1 == CASE command.kind = "open" -> setDevicePosition(w, nodeId, 100)
              [] command.kind = "close" -> setDevicePosition(w, nodeId, 0)
              [] command.kind = "stop" -> stopDevice(w, nodeId)
              [] command.kind = "position" ->
                   setDevicePosition(w, nodeId, command.value)
              [] OTHER -> w
  IN IF w1.err # ""
       THEN publishError(Log(w1, "Failed to execute device command"),
                         "Command failed")
       ELSE w1

handleSceneCommand(w, sceneId) ==
  LET w1 == runScene(w, sceneId)
  IN IF w1.err # ""
       THEN publishError(Log(w1, "Failed to execute scene command"),
                         "Scene failed")
       ELSE w1

(* ---------------------- MQTTBridge.handleMessage ------------------------ *)
\* !isNaN(position) && position >= 0 && position <= 100
AsPosition(payload) ==
  LET position == parseInt(payload)
  IN IF ~position.isNaN /\ position.value >= 0 /\ position.value <= 100
       THEN [kind |-> "position", value |-> position.value]
       ELSE NoCommand

\* NoCommand is null.
parseDeviceCommand(payload) ==
  LET cmd == trim(toLowerCase(payload))
  IN CASE cmd = Str("open") -> [kind |-> "open", value |-> 0]
       [] cmd = Str("close") -> [kind |-> "close", value |-> 0]
       [] cmd = Str("stop") -> [kind |-> "stop", value |-> 0]
       [] OTHER -> AsPosition(payload)

\* A message on {prefix}/devices/<seg>/<leaf>, leaf cmd or position/set:
\* the topic has matched ^prefix/devices/(\d+)/leaf$ and seg is the group.
\* The event <<"deviceCommand", {nodeId}, "">> is recorded and the daemon's
\* listener, handleDeviceCommand, runs up to its await.
handleMessage(w, msg) ==
  LET nodeId == parseInt(msg.seg).value
      command == IF msg.leaf = "cmd" THEN parseDeviceCommand(msg.payload)
                 ELSE AsPosition(msg.payload)
  IN IF command # NoCommand
       THEN handleDeviceCommand(
              [w EXCEPT !.ev = Append(@, <<"deviceCommand", {nodeId}, "">>)],
              nodeId, command)
       ELSE Log(w, IF msg.leaf = "cmd" THEN "Unknown device command"
                   ELSE "Invalid position value")

(* ------------------------------- config --------------------------------- *)
\* The quality of service is not validated.
validateConfigButQos(c) ==
  (IF c.host = "" THEN {"klf200.host is required"} ELSE {})
    \cup (IF c.password = "" THEN {"klf200.password is required"} ELSE {})
    \cup (IF c.port < 1 \/ c.port > 65535
            THEN {"klf200.port must be between 1 and 65535"} ELSE {})

\* validateConfig: the errors of a configuration
validateConfig(c) ==
  (IF c.host = "" THEN {"klf200.host is required"} ELSE {})
    \cup (IF c.password = "" THEN {"klf200.password is required"} ELSE {})
    \cup (IF c.port < 1 \/ c.port > 65535
            THEN {"klf200.port must be between 1 and 65535"} ELSE {})
    \cup (IF c.qos \notin {0, 1, 2} THEN {"mqtt.qos must be 0, 1, or 2"} ELSE {})

(* ------------------------------- actions -------------------------------- *)
NoRound == [queue |-> <<>>, all |-> <<>>, sent |-> {}, dropped |-> FALSE,
            src |-> "", val |-> <<>>]

\* The handler the step ran: its name, the task it belongs to, whether it
\* went through without an error, the id and command of a device or scene
\* command, the publication loop that returned in it.
NoMessage == [leaf |-> "", seg |-> <<>>, payload |-> <<>>]

Done(op, t, ok, id, cmd, round) ==
  last' = [op |-> op, t |-> t, ok |-> ok, id |-> id, cmd |-> cmd,
           round |-> round, msg |-> NoMessage]

Did(op, t, ok) == Done(op, t, ok, 0 - 1, NoCommand, NoRound)

Resume(t, arg) == [Cur EXCEPT !.h = tasks[t].h, !.arg = arg]

\* The step of task t ends at w, which is computed once as v.
TaskStep(t, w) ==
  \E v \in {w} :
    /\ ~v.blocked
    /\ Commit(v)
    /\ tasks' = [tasks EXCEPT ![t] =
                   [pc |-> v.pc,
                    h |-> IF v.pc \in {"idle", "done", "failed"} THEN Null ELSE v.h]]

\* A step of no task ends at w.
Step(w) ==
  \E v \in {w} :
    /\ ~v.blocked
    /\ Commit(v)
    /\ UNCHANGED tasks

\* The gateway may refuse or lose a request, unless it has become stable
\* and the request arrives on a session that is logged in.
MayFail(h) == ~(gwStable /\ h \in gwSessions)

FirstIdle(slots) ==
  slots[CHOOSE i \in 1 .. Len(slots) :
          /\ tasks[slots[i]].pc = "idle"
          /\ \A j \in 1 .. i - 1 : tasks[slots[j]].pc # "idle"]

\* main(): daemon.start() up to the await of mqtt.connect()
StartDaemon ==
  /\ ~exited /\ tasks["start"].pc = "init"
  /\ TaskStep("start", Run(Cur, "start", "start"))
  /\ Did("start", "start", TRUE)
  /\ UNCHANGED <<config, disk, gwVars>>

\* the broker accepts or refuses the connection of MQTTBridge.connect
MqttConnectReply(ok) ==
  /\ ~exited /\ tasks["start"].pc = "mqtt"
  /\ TaskStep("start", Run(Cur, "start", IF ok THEN "mqttOk" ELSE "throw"))
  /\ Did("mqttConnect", "start", ok)
  /\ UNCHANGED <<config, disk, gwVars>>

\* the broker acknowledges a publish that Daemon.start or
\* MQTTBridge.disconnect awaits
PublishReply(t, ok) ==
  /\ ~exited /\ tasks[t].pc \in {"online", "offline"}
  /\ TaskStep(t, Run(Cur, t, IF tasks[t].pc = "online"
                               THEN (IF ok THEN "onlineOk" ELSE "throw")
                               ELSE (IF ok THEN "offlineOk" ELSE "offlineFail")))
  /\ Did("publishReply", t, ok)
  /\ UNCHANGED <<config, disk, gwVars>>

\* client.end() of MQTTBridge.disconnect calls back
MqttEndReply ==
  /\ ~exited /\ tasks["stop"].pc = "end"
  /\ TaskStep("stop", Run(Cur, "stop", "endDone"))
  /\ Did("mqttEnd", "stop", TRUE)
  /\ UNCHANGED <<config, disk, gwVars>>

\* the MQTT client loses the broker ('close', 'offline')
MqttClose ==
  /\ ~exited /\ mqttClient /\ mqttConnected
  /\ Step(Log([Cur EXCEPT !.mqttConnected = FALSE, !.lost = TRUE],
              "MQTT connection closed"))
  /\ Did("mqttClose", "", TRUE)
  /\ UNCHANGED <<config, disk, gwVars>>

\* the MQTT client is connected to the broker again ('connect')
MqttReconnect ==
  /\ ~exited /\ mqttClient /\ ~mqttConnected /\ tasks["start"].pc # "mqtt"
  /\ Step(onConnect(Cur))
  /\ Did("mqttReconnect", "", TRUE)
  /\ UNCHANGED <<config, disk, gwVars>>

\* SIGINT / SIGTERM: Daemon.stop up to its first await
Signal ==
  /\ ~exited /\ tasks["start"].pc \notin {"main", "init"}
  /\ tasks["stop"].pc = "idle"
  /\ TaskStep("stop", Run([Cur EXCEPT !.running = FALSE, !.pollingTimer = FALSE],
                          "stop", "disconnect"))
  /\ Did("stop", "stop", TRUE)
  /\ UNCHANGED <<config, disk, gwVars>>

\* main(): daemon.start() has thrown; the process exits with code 1
ExitAfterFailure ==
  /\ ~exited /\ tasks["start"].pc = "failed"
  /\ Step([Cur EXCEPT !.exited = TRUE])
  /\ Did("exit", "start", FALSE)
  /\ UNCHANGED <<config, disk, gwVars>>

\* loginAsync resolves or rejects
LoginReply(t, ok) ==
  /\ ~exited /\ tasks[t].pc = "login"
  /\ ok \/ ~gwStable
  /\ gwSessions' = IF ok THEN gwSessions \cup {tasks[t].h} ELSE gwSessions
  /\ TaskStep(t, Run(Resume(t, {}), t, IF ok THEN "loginOk" ELSE "connectCatch"))
  /\ Did("loginReply", t, ok)
  /\ UNCHANGED <<config, disk, gwStable, gwProducts, gwDevices, probes, cmds>>

\* enableHouseStatusMonitorAsync resolves or rejects
EnableReply(t, ok) ==
  /\ ~exited /\ tasks[t].pc = "enable"
  /\ IF ok THEN tasks[t].h \in gwSessions ELSE MayFail(tasks[t].h)
  /\ TaskStep(t, Run(Resume(t, {}), t, IF ok THEN "enableOk" ELSE "connectCatch"))
  /\ Did("enableReply", t, ok)
  /\ UNCHANGED <<config, disk, gwVars>>

\* Products.createProductsAsync resolves with the gateway's products, or rejects
ProductsReply(t, ok) ==
  /\ ~exited /\ tasks[t].pc = "devices"
  /\ IF ok THEN tasks[t].h \in gwSessions ELSE MayFail(tasks[t].h)
  /\ TaskStep(t, Run(Log(Resume(t, gwProducts),
                         IF ok THEN "Discovered devices"
                               ELSE "Failed to discover devices"),
                     t, IF ok THEN "devicesOk" ELSE "throw"))
  /\ Did("productsReply", t, ok)
  /\ UNCHANGED <<config, disk, gwVars>>

\* Scenes.createScenesAsync resolves with the gateway's scenes, or rejects
ScenesReply(t, ok, ids) ==
  /\ ~exited /\ tasks[t].pc = "scenes"
  /\ IF ok THEN tasks[t].h \in gwSessions ELSE MayFail(tasks[t].h)
  /\ TaskStep(t, Run(Log(Resume(t, ids),
                         IF ok THEN "Discovered scenes"
                               ELSE "Failed to discover scenes"),
                     t, IF ok THEN "scenesOk" ELSE "throw"))
  /\ Did("scenesReply", t, ok)
  /\ UNCHANGED <<config, disk, gwVars>>

\* logoutAsync settles; either way the gateway session is gone
LogoutReply(t) ==
  /\ ~exited /\ tasks[t].pc = "logout"
  /\ gwSessions' = gwSessions \ {tasks[t].h}
  /\ TaskStep(t, Run(Resume(t, {}), t, "logoutDone"))
  /\ Did("logoutReply", t, TRUE)
  /\ UNCHANGED <<config, disk, gwStable, gwProducts, gwDevices, probes, cmds>>

\* the setInterval callback of startKeepalive up to its await
KeepaliveFire ==
  /\ ~exited /\ keepaliveTimer
  /\ IF ~connected \/ connection = Null \/ gateway = NoGateway
       THEN Step(Cur) /\ UNCHANGED probes
     ELSE IF gateway = Null
       \* a Gateway built on a null connection: the call throws
       THEN Step(handleConnectionLoss(Log(Cur, "Keepalive failed")))
            /\ UNCHANGED probes
     ELSE /\ gateway \notin probes
          /\ Step(Request(Cur, "getState", gateway))
          /\ probes' = probes \cup {gateway}
  /\ Did("keepaliveFire", "", TRUE)
  /\ UNCHANGED <<config, disk, gwSessions, gwStable, gwProducts, gwDevices, cmds>>

\* gateway.getStateAsync of a keepalive resolves or rejects
KeepaliveReply(h, ok) ==
  /\ ~exited /\ h \in probes
  /\ IF ok THEN h \in gwSessions ELSE MayFail(h)
  /\ probes' = probes \ {h}
  /\ Step(IF ok THEN Log(Cur, "Keepalive sent")
          ELSE handleConnectionLoss(Log(Cur, "Keepalive failed")))
  /\ Did("keepaliveReply", "", ok)
  /\ UNCHANGED <<config, disk, gwSessions, gwStable, gwProducts, gwDevices, cmds>>

\* a timer armed by scheduleReconnect fires: its callback up to its await
ReconnectTimerFire(orphan) ==
  /\ ~exited
  /\ \E t \in AttemptIds : tasks[t].pc = "idle"
  /\ IF orphan THEN orphanTimers > 0 ELSE reconnectTimer = "live"
  /\ LET t == FirstIdle(AttemptSlots)
         w == IF orphan THEN [Cur EXCEPT !.orphanTimers = @ - 1]
              ELSE [Cur EXCEPT !.reconnectTimer = "fired", !.reconnectDelay = 0]
     IN /\ TaskStep(t, Run(w, t, "callback"))
        /\ Did("reconnectTimer", t, TRUE)
  /\ UNCHANGED <<config, disk, gwVars>>

\* {prefix}/cmd 'reconnect': Daemon.handleGlobalCommand up to its await
GlobalReconnect ==
  /\ ~exited /\ mqttConnected
  /\ \E t \in ForcedIds : tasks[t].pc = "idle"
  /\ LET t == FirstIdle(ForcedSlots)
     IN /\ TaskStep(t, Run(Log(Cur, "Forcing reconnection"), t, "disconnect"))
        /\ Did("globalReconnect", t, TRUE)
  /\ UNCHANGED <<config, disk, gwVars>>

\* {prefix}/cmd 'refresh': Daemon.handleGlobalCommand up to its await
GlobalRefresh ==
  /\ ~exited /\ mqttConnected /\ tasks["refresh"].pc = "idle"
  /\ TaskStep("refresh", Run(Cur, "refresh", "refresh"))
  /\ Did("globalRefresh", "refresh", TRUE)
  /\ UNCHANGED <<config, disk, gwVars>>

\* the setInterval callback of Daemon.startPolling up to its await
PollTick ==
  /\ ~exited /\ pollingTimer /\ tasks["poll"].pc = "idle"
  /\ IF ~connected THEN TaskStep("poll", Cur)
     ELSE IF products = NoProducts
       THEN TaskStep("poll", Run(Cur, "poll", "discoverDevices"))
     ELSE TaskStep("poll", Run(Cur, "poll", "finish"))
  /\ Did("pollTick", "poll", TRUE)
  /\ UNCHANGED <<config, disk, gwVars>>

\* The commands a step handed to the gateway: <<operation, Connection, id>>
NewCmds(w) == {<<w.req[i][1], w.req[i][2], w.req[i][3]>> : i \in 1 .. Len(w.req)}

\* {prefix}/devices/n/cmd or .../position/set: Daemon.handleDeviceCommand
DeviceCommand(n, c) ==
  /\ ~exited /\ mqttConnected
  /\ LET w == handleDeviceCommand(Cur, n, c)
     IN /\ Cardinality(cmds) < MaxCmds
        /\ NewCmds(w) \cap cmds = {}
        /\ cmds' = cmds \cup NewCmds(w)
        /\ Step(w)
        /\ Done("deviceCommand", "", w.err = "", n, c, NoRound)
  /\ UNCHANGED <<config, disk, gwSessions, gwStable, gwProducts, gwDevices, probes>>

\* {prefix}/scenes/n/cmd 'run': Daemon.handleSceneCommand
SceneCommand(id) ==
  /\ ~exited /\ mqttConnected
  /\ LET w == handleSceneCommand(Cur, id)
     IN /\ Cardinality(cmds) < MaxCmds
        /\ NewCmds(w) \cap cmds = {}
        /\ cmds' = cmds \cup NewCmds(w)
        /\ Step(w)
        /\ Done("sceneCommand", "", w.err = "", id, [kind |-> "run", value |-> 0],
                NoRound)
  /\ UNCHANGED <<config, disk, gwSessions, gwStable, gwProducts, gwDevices, probes>>

\* setTargetPositionAsync / stopAsync / runAsync resolves or rejects
CommandReply(c, ok) ==
  /\ ~exited /\ c \in cmds
  /\ IF ok THEN c[2] \in gwSessions ELSE MayFail(c[2])
  /\ cmds' = cmds \ {c}
  /\ Step(IF ok THEN Cur
          ELSE publishError(Log(Cur, IF c[1] = "run"
                                       THEN "Failed to execute scene command"
                                       ELSE "Failed to execute device command"),
                            IF c[1] = "run" THEN "Scene failed"
                                            ELSE "Command failed"))
  /\ Did("commandReply", "", ok)
  /\ UNCHANGED <<config, disk, gwSessions, gwStable, gwProducts, gwDevices, probes>>

\* The command the message was parsed to, as handleMessage parses it.
CommandOf(msg) ==
  IF msg.leaf = "cmd" THEN parseDeviceCommand(msg.payload)
  ELSE AsPosition(msg.payload)

\* the MQTT client's 'message' event for a device topic
HandleMessage(msg) ==
  /\ ~exited /\ mqttConnected
  /\ LET w == handleMessage(Log(Cur, "Received MQTT message"), msg)
     IN /\ Cardinality(cmds) < MaxCmds
        /\ NewCmds(w) \cap cmds = {}
        /\ cmds' = cmds \cup NewCmds(w)
        /\ Step(w)
        /\ last' = [op |-> "message", t |-> "", ok |-> w.err = "",
                    id |-> parseInt(msg.seg).value, cmd |-> CommandOf(msg),
                    round |-> NoRound, msg |-> msg]
  /\ UNCHANGED <<config, disk, gwSessions, gwStable, gwProducts, gwDevices, probes>>

\* the daemon's listener for the session's 'deviceStateChanged':
\* registry.updateDevice(state)
UpdateDevice(state) ==
  /\ ~exited
  /\ Step(updateDevice(Cur, state))
  /\ Done("updateDevice", "", TRUE, state.nodeId, NoCommand, NoRound)
  /\ UNCHANGED <<config, disk, gwVars>>

\* registry.updateDevices(states), called on the registry by itself
UpdateDevices(states) ==
  /\ ~exited
  /\ Step(updateDevices(Cur, states))
  /\ Did("updateDevices", "", TRUE)
  /\ UNCHANGED <<config, disk, gwVars>>

\* a product of the session's product list reports a property change:
\* KLFConnection.handleProductPropertyChange and the listeners it reaches
PropertyChanged(n, raw) ==
  /\ ~exited
  /\ products # NoProducts /\ n \in products.nodes
  /\ products.conn \in gwSessions
  /\ gwDevices[n].stamp < MaxStamp
  /\ gwDevices' = [gwDevices EXCEPT ![n] = Product(raw, @.stamp + 1)]
  /\ Step(updateDevice(
            [Cur EXCEPT !.ev = <<<<"deviceStateChanged", {n}, "">>>>],
            productToDeviceState(n, gwDevices'[n])))
  /\ Done("propertyChanged", "", TRUE, n, NoCommand, NoRound)
  /\ UNCHANGED <<config, disk, gwSessions, gwStable, gwProducts, probes, cmds>>

\* the debounce timer of DeviceRegistry.scheduleSave fires.  An exception
\* that leaves save leaves the callback as an uncaught exception of the
\* process: the handler main() has installed logs it and calls shutdown,
\* which runs Daemon.stop up to its first await once the daemon has been
\* started, unless stop runs already.
SaveTimerFire ==
  /\ ~exited /\ saveTimers > 0
  /\ LET w == [Cur EXCEPT !.saveTimer = [set |-> FALSE, armed |-> @.armed - 1]]
         w1 == IF w.dirty THEN save(w) ELSE w
         w2 == Log([w1 EXCEPT !.err = ""], "Uncaught exception")
     IN /\ IF w1.err = "" THEN Step(w1)
           ELSE IF /\ tasks["start"].pc \notin {"main", "init"}
                   /\ tasks["stop"].pc = "idle"
                  THEN TaskStep("stop",
                                Run([w2 EXCEPT !.running = FALSE,
                                               !.pollingTimer = FALSE],
                                    "stop", "disconnect"))
                  ELSE Step(w2)
        /\ Did("saveTimer", "", w1.err = "" /\ ~w1.dirty)
  /\ UNCHANGED <<config, disk, gwVars>>

\* DeviceRegistry.flush(), called on the registry by itself; the step is
\* not ok when an exception leaves flush.
Flush ==
  /\ ~exited
  /\ LET w == flush(Cur)
     IN /\ Step([w EXCEPT !.err = ""])
        /\ Did("flush", "", w.err = "")
  /\ UNCHANGED <<config, disk, gwVars>>

\* The process is killed while writeFileSync of save, called by the timer,
\* writes to the snapshot path: the file holds the leading part of the new
\* document.
CrashInSave ==
  /\ ~exited /\ saveTimers > 0 /\ dirty /\ disk = "ok"
  /\ Step([Cur EXCEPT !.file = Truncated(Stringify(Cur)), !.exited = TRUE])
  /\ Did("crash", "", FALSE)
  /\ UNCHANGED <<config, disk, gwVars>>

\* the data directory becomes read-only, or is removed and cannot be made
\* again, or is repaired
DiskFault(d) ==
  /\ ~exited /\ d # disk
  /\ disk' = d
  /\ UNCHANGED <<klfVars, config, daemonVars, registryVars, gwVars, bus, tasks,
                 rounds, stepVars>>

\* main(): new Daemon().  loadConfig validates the configuration and the
\* constructor throws when it has errors; nothing is connected before
\* daemon.start().
NewDaemon ==
  /\ ~exited /\ tasks["start"].pc = "main"
  /\ LET errors == validateConfig(config)
     IN IF errors # {}
          THEN /\ TaskStep("start", [Log(Cur, "Configuration error")
                                       EXCEPT !.pc = "failed"])
               /\ Did("new", "start", FALSE)
          ELSE /\ TaskStep("start", [Log(Cur, "Daemon initialized successfully")
                                       EXCEPT !.pc = "init"])
               /\ Did("new", "start", TRUE)
  /\ UNCHANGED <<config, disk, gwVars>>

RemoveAt(seq, i) == SubSeq(seq, 1, i - 1) \o SubSeq(seq, i + 1, Len(seq))

\* the broker acknowledges or refuses the publish a publication loop
\* awaits.  w.rounds holds the loops in the order of their pending
\* publishes, and the client calls back in the order it was handed the
\* messages: the reply is for the loop at the head, which goes to the end
\* with its next publish.
RoundReply(i, ok) ==
  /\ ~exited /\ i \in 1 .. Len(rounds) /\ i = 1
  /\ LET r == rounds[i]
         w0 == [Cur EXCEPT !.rounds = RemoveAt(rounds, i)]
         res == RunRound(w0, [r EXCEPT !.queue = Tail(@)])
     IN IF ~ok
          THEN /\ Step(Log(w0, "Failed to publish MQTT message"))
               /\ Done("roundReply", r.src, FALSE, 0 - 1, NoCommand, r)
        ELSE IF res.r.queue = <<>>
          THEN /\ Step(res.w)
               /\ Done("roundReply", r.src, TRUE, 0 - 1, NoCommand, res.r)
        ELSE /\ Step([res.w EXCEPT !.rounds = Append(@, res.r)])
             /\ Did("roundReply", r.src, TRUE)
  /\ UNCHANGED <<config, disk, gwVars>>

\* the set of products paired with the gateway changes
GwInventory(nodes) ==
  /\ ~exited /\ nodes # gwProducts
  /\ gwProducts' = nodes
  /\ UNCHANGED <<klfVars, config, daemonVars, registryVars, disk, gwSessions,
                 gwStable, gwDevices, probes, cmds, bus, tasks, rounds,
                 stepVars>>

\* from here on the gateway answers every request of a logged-in session
GwStabilize ==
  /\ ~exited /\ ~gwStable
  /\ gwStable' = TRUE
  /\ UNCHANGED <<klfVars, config, daemonVars, registryVars, disk, gwSessions,
                 gwProducts, gwDevices, probes, cmds, bus, tasks, rounds,
                 stepVars>>

\* The configurations a constructed daemon runs with: validateConfig has
\* found no error in them.
Configs ==
  {[base |-> d[1], max |-> d[2], autoDiscovery |-> a, publishOnStartup |-> p,
    pollingEnabled |-> q, host |-> "10.0.0.5", password |-> "p",
    port |-> 51200, qos |-> 1] :
     d \in DelayConfigs, a \in BOOLEAN, p \in BOOLEAN, q \in BOOLEAN}

\* What loadConfig may make of the configuration file and the defaults: a
\* host or a password that is missing is the empty string of DEFAULT_CONFIG.
FileConfigs ==
  {[base |-> 5, max |-> 5, autoDiscovery |-> a, publishOnStartup |-> FALSE,
    pollingEnabled |-> q, host |-> hs, password |-> pw, port |-> pt,
    qos |-> qs] :
     a \in BOOLEAN, q \in BOOLEAN, hs \in {"", "10.0.0.5"}, pw \in {"", "p"},
     pt \in {0, 1, 65535, 65536}, qs \in {0, 2, 3}}

\* The snapshot file holds what an earlier run has seen of the products as
\* they are now.
LoadedSnapshot == [n \in Nodes |-> productToDeviceState(n, Product(0, 0))]

\* A state of node 0 that differs from the loaded one in every field.
OtherState ==
  [nodeId |-> 0, name |-> "door", position |-> 0, targetPosition |-> 0,
   moving |-> TRUE, online |-> FALSE, error |-> "Status",
   limitationMin |-> 50, limitationMax |-> 50, lastUpdate |-> 1]

StateFields == DOMAIN OtherState \ {"nodeId"}

\* The states of node 0 that differ from the loaded one in at most one
\* field besides lastUpdate.
RichStates ==
  {[f \in DOMAIN OtherState |->
      IF f \in F THEN OtherState[f] ELSE LoadedSnapshot[0][f]] :
     F \in {S \in SUBSET StateFields :
              Cardinality(S \ {"lastUpdate"}) <= 1}}

\* What snapshot files hold of the devices; nothing when there is no file.
Snapshots ==
  {LoadedSnapshot}
    \cup {[n \in Nodes |-> IF n = 0 THEN d ELSE NoDevice] :
            d \in RichStates \cup {NoDevice}}

SavedScenes == {0}

\* The files an earlier run has left at the snapshot path.
SnapshotFiles ==
  {IF \A n \in Nodes : snap[n] = NoDevice THEN NoFile
   ELSE Stringify([devices |-> snap, registryScenes |-> SavedScenes]) :
     snap \in Snapshots}

\* The state before main() has run (pc = "main") or after the constructor
\* has returned (pc = "init"), with a configuration of cs and the products
\* of the gateway as one of gs has them.
InitGw(cs, pc, gs) ==
  /\ connection = Null /\ gateway = NoGateway
  /\ products = NoProducts /\ scenes = NoScenes
  /\ connected = FALSE /\ reconnecting = FALSE /\ reconnectAttempt = 0
  /\ keepaliveTimer = FALSE /\ reconnectTimer = "null" /\ shuttingDown = FALSE
  /\ reconnectDelay = 0 /\ orphanTimers = 0
  /\ config \in cs
  /\ running = FALSE /\ pollingTimer = FALSE
  /\ mqttClient = FALSE /\ mqttConnected = FALSE /\ exited = FALSE
  /\ file \in SnapshotFiles
  /\ devices = load(file).devices /\ order = load(file).order
  /\ registryScenes = load(file).scenes
  /\ dirty = FALSE /\ saveTimer = FALSE /\ saveTimers = 0
  /\ disk = "ok"
  /\ gwSessions = {} /\ gwStable \in BOOLEAN /\ gwProducts \in NodeSets
  /\ gwDevices \in gs
  /\ probes = {} /\ cmds = {}
  /\ bus = NoBus
  /\ tasks = [t \in TaskIds |->
                [pc |-> IF t = "start" THEN pc ELSE "idle", h |-> Null]]
  /\ rounds = <<>>
  /\ last = [op |-> "init", t |-> "", ok |-> TRUE, id |-> 0 - 1,
             cmd |-> NoCommand, round |-> NoRound, msg |-> NoMessage]
  /\ ev = <<>> /\ req = <<>> /\ pub = <<>> /\ log = <<>> /\ rev = <<>>

\* The products of the gateway are open, at rest, and report no limitation.
InitOf(cs, pc) == InitGw(cs, pc, {[n \in Nodes |-> Product(0, 0)]})

Init == InitOf(Configs, "init")

(* --------------------------- specifications ----------------------------- *)
\* The gateway session from startup to shutdown: Daemon.start, the
\* keepalive, connection loss and the reconnect timer, Daemon.stop.
InitSession ==
  /\ Init /\ devices = LoadedSnapshot
  /\ ~gwStable /\ ~config.pollingEnabled /\ ~config.publishOnStartup

NextSession ==
  \/ StartDaemon
  \/ \E ok \in BOOLEAN : MqttConnectReply(ok)
  \/ \E t \in TaskIds, ok \in BOOLEAN : PublishReply(t, ok)
  \/ MqttEndReply
  \/ Signal
  \/ ExitAfterFailure
  \/ \E t \in TaskIds, ok \in BOOLEAN : LoginReply(t, ok)
  \/ \E t \in TaskIds, ok \in BOOLEAN : EnableReply(t, ok)
  \/ \E t \in TaskIds, ok \in BOOLEAN : ProductsReply(t, ok)
  \/ \E t \in TaskIds, ok \in BOOLEAN, ids \in SceneSets : ScenesReply(t, ok, ids)
  \/ \E t \in TaskIds : LogoutReply(t)
  \/ KeepaliveFire
  \/ \E h \in Handles, ok \in BOOLEAN : KeepaliveReply(h, ok)
  \/ \E orphan \in BOOLEAN : ReconnectTimerFire(orphan)

Spec == InitSession /\ [][NextSession]_vars

\* The session with forced reconnections ({prefix}/cmd 'reconnect') on a
\* gateway that answers every request of a logged-in session.
InitReconnect ==
  /\ Init /\ devices = LoadedSnapshot
  /\ gwStable /\ ~config.pollingEnabled /\ ~config.publishOnStartup
  /\ ~config.autoDiscovery /\ config.max = 5 /\ gwProducts = {0}

NextReconnect ==
  \/ StartDaemon
  \/ \E ok \in BOOLEAN : MqttConnectReply(ok)
  \/ \E t \in TaskIds, ok \in BOOLEAN : PublishReply(t, ok)
  \/ MqttEndReply
  \/ Signal
  \/ ExitAfterFailure
  \/ \E t \in TaskIds, ok \in BOOLEAN : LoginReply(t, ok)
  \/ \E t \in TaskIds, ok \in BOOLEAN : EnableReply(t, ok)
  \/ \E t \in TaskIds : LogoutReply(t)
  \/ GlobalReconnect

SpecReconnect == InitReconnect /\ [][NextReconnect]_vars

\* The session, without a shutdown, with the publication loops the
\* discovery events start.
InitPublish ==
  /\ Init /\ devices = LoadedSnapshot
  /\ ~gwStable /\ ~config.pollingEnabled /\ config.autoDiscovery
  /\ config.max = 5

NextPublish ==
  \/ StartDaemon
  \/ \E ok \in BOOLEAN : MqttConnectReply(ok)
  \/ \E t \in TaskIds, ok \in BOOLEAN : PublishReply(t, ok)
  \/ ExitAfterFailure
  \/ \E t \in TaskIds, ok \in BOOLEAN : LoginReply(t, ok)
  \/ \E t \in TaskIds, ok \in BOOLEAN : EnableReply(t, ok)
  \/ \E t \in TaskIds, ok \in BOOLEAN : ProductsReply(t, ok)
  \/ \E t \in TaskIds, ok \in BOOLEAN, ids \in SceneSets : ScenesReply(t, ok, ids)
  \/ \E t \in TaskIds : LogoutReply(t)
  \/ KeepaliveFire
  \/ \E h \in Handles, ok \in BOOLEAN : KeepaliveReply(h, ok)
  \/ \E orphan \in BOOLEAN : ReconnectTimerFire(orphan)
  \/ \E i \in 1 .. MaxRounds, ok \in BOOLEAN : RoundReply(i, ok)
  \/ MqttClose
  \/ MqttReconnect

SpecPublish == InitPublish /\ [][NextPublish]_vars

\* The session, without a shutdown, with device and scene commands.
InitCommands ==
  /\ Init /\ devices = LoadedSnapshot
  /\ ~gwStable /\ ~config.pollingEnabled /\ ~config.publishOnStartup
  /\ config.autoDiscovery /\ config.max = 5 /\ gwProducts = {0}

NextCommands ==
  \/ StartDaemon
  \/ \E ok \in BOOLEAN : MqttConnectReply(ok)
  \/ \E t \in TaskIds, ok \in BOOLEAN : PublishReply(t, ok)
  \/ ExitAfterFailure
  \/ \E t \in TaskIds, ok \in BOOLEAN : LoginReply(t, ok)
  \/ \E t \in TaskIds, ok \in BOOLEAN : EnableReply(t, ok)
  \/ \E t \in TaskIds, ok \in BOOLEAN : ProductsReply(t, ok)
  \/ \E t \in TaskIds, ok \in BOOLEAN, ids \in SceneSets : ScenesReply(t, ok, ids)
  \/ \E t \in TaskIds : LogoutReply(t)
  \/ KeepaliveFire
  \/ \E h \in Handles, ok \in BOOLEAN : KeepaliveReply(h, ok)
  \/ \E orphan \in BOOLEAN : ReconnectTimerFire(orphan)
  \/ \E n \in Nodes, c \in DeviceCommands : DeviceCommand(n, c)
  \/ \E id \in SceneIds : SceneCommand(id)
  \/ \E c \in cmds, ok \in BOOLEAN : CommandReply(c, ok)

SpecCommands == InitCommands /\ [][NextCommands]_vars

\* The session on a gateway that, from some point on, answers every request
\* of a logged-in session.  Timers fire and pending requests are answered
\* or time out: every step below that stays possible is taken eventually.
NextFair ==
  \/ StartDaemon
  \/ \E ok \in BOOLEAN : MqttConnectReply(ok)
  \/ \E t \in TaskIds, ok \in BOOLEAN : PublishReply(t, ok)
  \/ ExitAfterFailure
  \/ \E t \in TaskIds, ok \in BOOLEAN : LoginReply(t, ok)
  \/ \E t \in TaskIds, ok \in BOOLEAN : EnableReply(t, ok)
  \/ \E t \in TaskIds, ok \in BOOLEAN : ProductsReply(t, ok)
  \/ \E t \in TaskIds, ok \in BOOLEAN, ids \in SceneSets : ScenesReply(t, ok, ids)
  \/ \E t \in TaskIds : LogoutReply(t)
  \/ KeepaliveFire
  \/ \E h \in Handles, ok \in BOOLEAN : KeepaliveReply(h, ok)
  \/ \E orphan \in BOOLEAN : ReconnectTimerFire(orphan)
  \/ GwStabilize

Fairness ==
  /\ WF_vars(StartDaemon)
  /\ WF_vars(\E ok \in BOOLEAN : MqttConnectReply(ok))
  /\ WF_vars(\E t \in TaskIds, ok \in BOOLEAN : PublishReply(t, ok))
  /\ WF_vars(\E t \in TaskIds, ok \in BOOLEAN : LoginReply(t, ok))
  /\ WF_vars(\E t \in TaskIds, ok \in BOOLEAN : EnableReply(t, ok))
  /\ WF_vars(\E t \in TaskIds, ok \in BOOLEAN : ProductsReply(t, ok))
  /\ WF_vars(\E t \in TaskIds, ok \in BOOLEAN, ids \in SceneSets :
               ScenesReply(t, ok, ids))
  /\ WF_vars(\E t \in TaskIds : LogoutReply(t))
  /\ WF_vars(KeepaliveFire)
  /\ WF_vars(\E h \in Handles, ok \in BOOLEAN : KeepaliveReply(h, ok))
  /\ WF_vars(\E orphan \in BOOLEAN : ReconnectTimerFire(orphan))
  /\ WF_vars(GwStabilize)

SpecFair == InitSession /\ [][NextFair]_vars /\ Fairness

\* Messages on the device command topics: the payloads, and the node id
\* segments of the topics.
Payloads ==
  {Str("open"), <<"O", "P", "E", "N">>, <<" ", "s", "t", "o", "p", " ">>,
   Str("close"), <<"5", "0">>, <<"1", "0", "0">>, <<"1", "5", "0">>,
   <<"5", "0", "a">>, <<"1", ".", "5">>, <<"-", "5">>, <<" ", "7">>, <<"a">>,
   <<>>}

Segs == {<<"0">>, <<"1">>, <<"0", "1">>}

Messages ==
  [leaf : {"cmd", "position/set"}, seg : Segs, payload : Payloads]

\* The daemon from startup on, on a gateway that answers every request,
\* with the messages of the device command topics.
InitMessages ==
  /\ Init /\ devices = LoadedSnapshot
  /\ gwStable /\ ~config.pollingEnabled /\ ~config.publishOnStartup
  /\ config.autoDiscovery /\ config.max = 5 /\ gwProducts = {0}

NextMessages ==
  \/ StartDaemon
  \/ \E ok \in BOOLEAN : MqttConnectReply(ok)
  \/ \E t \in TaskIds, ok \in BOOLEAN : PublishReply(t, ok)
  \/ ExitAfterFailure
  \/ \E t \in TaskIds, ok \in BOOLEAN : LoginReply(t, ok)
  \/ \E t \in TaskIds, ok \in BOOLEAN : EnableReply(t, ok)
  \/ \E t \in TaskIds, ok \in BOOLEAN : ProductsReply(t, ok)
  \/ \E t \in TaskIds, ok \in BOOLEAN, ids \in SceneSets : ScenesReply(t, ok, ids)
  \/ \E msg \in Messages : HandleMessage(msg)
  \/ \E c \in cmds, ok \in BOOLEAN : CommandReply(c, ok)

SpecMessages == InitMessages /\ [][NextMessages]_vars

\* The registry of a constructed daemon: updates of node 0 and the debounced
\* save.
InitRegistry ==
  /\ Init
  /\ gwStable /\ gwProducts = {0}
  /\ config.base = 5 /\ config.max = 5
  /\ config.autoDiscovery /\ ~config.pollingEnabled /\ ~config.publishOnStartup

NextRegistry ==
  \/ \E state \in RichStates : UpdateDevice(state)
  \/ SaveTimerFire

SpecRegistry == InitRegistry /\ [][NextRegistry]_vars

\* Startup, discovery and the property changes the products report on a
\* stable gateway, with the publications they cause.
InitDevices ==
  /\ Init /\ devices = LoadedSnapshot
  /\ gwStable /\ gwProducts = {0, 1}
  /\ config.autoDiscovery /\ ~config.pollingEnabled /\ config.max = 5

NextDevices ==
  \/ StartDaemon
  \/ \E ok \in BOOLEAN : MqttConnectReply(ok)
  \/ \E t \in TaskIds, ok \in BOOLEAN : PublishReply(t, ok)
  \/ ExitAfterFailure
  \/ \E t \in TaskIds, ok \in BOOLEAN : LoginReply(t, ok)
  \/ \E t \in TaskIds, ok \in BOOLEAN : EnableReply(t, ok)
  \/ \E t \in TaskIds, ok \in BOOLEAN : ProductsReply(t, ok)
  \/ \E t \in TaskIds, ok \in BOOLEAN, ids \in SceneSets : ScenesReply(t, ok, ids)
  \/ \E n \in Nodes, raw \in RawPositions : PropertyChanged(n, raw)
  \/ \E i \in 1 .. MaxRounds, ok \in BOOLEAN : RoundReply(i, ok)

SpecDevices == InitDevices /\ [][NextDevices]_vars

\* Startup, publication and shutdown on a stable gateway: Daemon.start, the
\* property changes of one product, Daemon.stop at any moment.
InitShutdown ==
  /\ Init /\ devices = LoadedSnapshot
  /\ gwStable /\ gwProducts = {0}
  /\ config.autoDiscovery /\ ~config.pollingEnabled /\ config.max = 5

NextShutdown ==
  \/ StartDaemon
  \/ \E ok \in BOOLEAN : MqttConnectReply(ok)
  \/ \E t \in TaskIds, ok \in BOOLEAN : PublishReply(t, ok)
  \/ ExitAfterFailure
  \/ \E t \in TaskIds, ok \in BOOLEAN : LoginReply(t, ok)
  \/ \E t \in TaskIds, ok \in BOOLEAN : EnableReply(t, ok)
  \/ \E t \in TaskIds, ok \in BOOLEAN : ProductsReply(t, ok)
  \/ \E t \in TaskIds, ok \in BOOLEAN, ids \in SceneSets : ScenesReply(t, ok, ids)
  \/ \E t \in TaskIds : LogoutReply(t)
  \/ \E n \in Nodes, raw \in RawPositions : PropertyChanged(n, raw)
  \/ \E i \in 1 .. MaxRounds, ok \in BOOLEAN : RoundReply(i, ok)
  \/ SaveTimerFire
  \/ Signal
  \/ MqttEndReply

SpecShutdown == InitShutdown /\ [][NextShutdown]_vars

\* The session with what may end it: failed keepalive probes, one forced
\* reconnection of a session that is connected and Daemon.stop, on a
\* gateway that answers the requests of a connect and of a discovery.
InitStatus ==
  /\ Init /\ devices = LoadedSnapshot
  /\ ~gwStable /\ ~config.pollingEnabled /\ ~config.publishOnStartup
  /\ ~config.autoDiscovery /\ config.max = 5 /\ gwProducts = {0}

NextStatus ==
  \/ StartDaemon
  \/ \E ok \in BOOLEAN : MqttConnectReply(ok)
  \/ \E t \in TaskIds, ok \in BOOLEAN : PublishReply(t, ok)
  \/ MqttEndReply
  \/ Signal
  \/ ExitAfterFailure
  \/ \E t \in TaskIds : LoginReply(t, TRUE)
  \/ \E t \in TaskIds : EnableReply(t, TRUE)
  \/ \E t \in TaskIds : ProductsReply(t, TRUE)
  \/ \E t \in TaskIds, ids \in SceneSets : ScenesReply(t, TRUE, ids)
  \/ \E t \in TaskIds : LogoutReply(t)
  \/ KeepaliveFire
  \/ \E h \in Handles, ok \in BOOLEAN : KeepaliveReply(h, ok)
  \/ \E orphan \in BOOLEAN : ReconnectTimerFire(orphan)
  \/ GlobalReconnect /\ tasks["f1"].pc = "idle" /\ connected

SpecStatus == InitStatus /\ [][NextStatus]_vars

\* Startup and shutdown with the data directory of the registry, which may
\* become unusable at any moment.
InitStop ==
  /\ Init /\ devices = LoadedSnapshot
  /\ gwStable /\ gwProducts = {0}
  /\ config.autoDiscovery /\ ~config.pollingEnabled /\ ~config.publishOnStartup
  /\ config.max = 5

NextStop ==
  \/ StartDaemon
  \/ \E ok \in BOOLEAN : MqttConnectReply(ok)
  \/ \E t \in TaskIds, ok \in BOOLEAN : PublishReply(t, ok)
  \/ ExitAfterFailure
  \/ \E t \in TaskIds, ok \in BOOLEAN : LoginReply(t, ok)
  \/ \E t \in TaskIds, ok \in BOOLEAN : EnableReply(t, ok)
  \/ \E t \in TaskIds, ok \in BOOLEAN : ProductsReply(t, ok)
  \/ \E t \in TaskIds, ok \in BOOLEAN, ids \in SceneSets : ScenesReply(t, ok, ids)
  \/ \E t \in TaskIds : LogoutReply(t)
  \/ SaveTimerFire
  \/ \E d \in {"ok", "readonly", "gone"} : DiskFault(d)
  \/ Signal
  \/ MqttEndReply

SpecStop == InitStop /\ [][NextStop]_vars

\* main() from new Daemon() to the end of Daemon.start, and the polling that
\* start has begun, with what loadConfig may make of the configuration file.
InitStartup ==
  /\ InitOf(FileConfigs, "main") /\ devices = LoadedSnapshot
  /\ gwProducts = {0}

NextStartup ==
  \/ NewDaemon
  \/ StartDaemon
  \/ \E ok \in BOOLEAN : MqttConnectReply(ok)
  \/ \E t \in TaskIds, ok \in BOOLEAN : PublishReply(t, ok)
  \/ ExitAfterFailure
  \/ \E t \in TaskIds, ok \in BOOLEAN : LoginReply(t, ok)
  \/ \E t \in TaskIds, ok \in BOOLEAN : EnableReply(t, ok)
  \/ \E t \in TaskIds, ok \in BOOLEAN : ProductsReply(t, ok)
  \/ \E t \in TaskIds, ok \in BOOLEAN, ids \in SceneSets : ScenesReply(t, ok, ids)
  \/ PollTick
  \/ SaveTimerFire

SpecStartup == InitStartup /\ [][NextStartup]_vars

\* The states the registry is updated with where it is saved and read back:
\* four of node 0 and one of node 1.
PersistStates ==
  {LoadedSnapshot[0], [LoadedSnapshot[0] EXCEPT !.lastUpdate = 1],
   [LoadedSnapshot[0] EXCEPT !.name = "door"], OtherState, LoadedSnapshot[1]}

\* The registry of a constructed daemon with a snapshot of both nodes or
\* none: updates, the debounced save, flush, and the faults of the data
\* directory and of the process.
InitPersist ==
  /\ InitRegistry
  /\ devices \in {LoadedSnapshot, NoRegistry.devices}

NextPersist ==
  \/ \E state \in PersistStates : UpdateDevice(state)
  \/ SaveTimerFire
  \/ Flush
  \/ CrashInSave
  \/ \E d \in {"ok", "readonly", "gone"} : DiskFault(d)

SpecPersist == InitPersist /\ [][NextPersist]_vars

\* The registry by itself while file writes succeed: updates and the
\* debounce timer, which the event loop fires once its second has passed.
NextSave ==
  \/ \E state \in PersistStates : UpdateDevice(state)
  \/ SaveTimerFire

SpecSave == InitPersist /\ [][NextSave]_vars /\ WF_vars(SaveTimerFire)

\* Raw positions a product may report, in thousandths, values outside
\* [0, 1] among them, and the limitation arrays it may report: none, or one
\* raw value of [0, 1].
RawRange == {0 - 200, 0, 4, 5, 6, 500, 1000, 1500}
RawTargets == {500, 1500}
LimitArrays == {<<>>, <<0>>, <<250>>, <<1000>>}

GwInventories ==
  {[n \in Nodes |-> ProductOf(current, target, limitMin, limitMax, 0)] :
     current \in RawRange, target \in RawTargets,
     limitMin \in LimitArrays, limitMax \in LimitArrays}

\* productToDeviceState and klfPositionToPercent on what the gateway may
\* report: a daemon without a snapshot file starts on a stable gateway and
\* its discovery stores and publishes the states of the products.
InitConvert ==
  /\ InitGw(Configs, "init", GwInventories)
  /\ file = NoFile
  /\ gwStable /\ gwProducts = {0, 1}
  /\ config.base = 5 /\ config.max = 5
  /\ config.autoDiscovery /\ ~config.pollingEnabled /\ config.publishOnStartup

NextConvert ==
  \/ StartDaemon
  \/ MqttConnectReply(TRUE)
  \/ \E t \in TaskIds : PublishReply(t, TRUE)
  \/ \E t \in TaskIds : LoginReply(t, TRUE)
  \/ \E t \in TaskIds : EnableReply(t, TRUE)
  \/ \E t \in TaskIds : ProductsReply(t, TRUE)
  \/ \E t \in TaskIds, ids \in SceneSets : ScenesReply(t, TRUE, ids)
  \/ \E i \in 1 .. MaxRounds : RoundReply(i, TRUE)

SpecConvert == InitConvert /\ [][NextConvert]_vars

\* The percentages of a position command.
Percents == 0 .. 100

\* A product at rest where a position command of percent has sent it: the
\* raw position percentToKlfPosition(percent), hundredths taken as
\* thousandths.
Commanded(percent) == Product(10 * percentToKlfPosition(percent), 0)

\* klfPositionToPercent on the raw positions percentToKlfPosition yields: a
\* daemon without a snapshot file starts on a stable gateway whose products
\* are where a command of some percent has sent them, and its discovery
\* stores and publishes their states.
InitRoundTrip ==
  /\ InitGw(Configs, "init",
            {[n \in Nodes |-> Commanded(percent)] : percent \in Percents})
  /\ file = NoFile
  /\ gwStable /\ gwProducts = {0, 1}
  /\ config.base = 5 /\ config.max = 5
  /\ config.autoDiscovery /\ ~config.pollingEnabled /\ config.publishOnStartup

SpecRoundTrip == InitRoundTrip /\ [][NextConvert]_vars

\* The states of node n bulk updates carry: the loaded one, one with
\* another position, one with another time only.
BulkStatesOf(n) ==
  {LoadedSnapshot[n], [LoadedSnapshot[n] EXCEPT !.position = 0],
   [LoadedSnapshot[n] EXCEPT !.lastUpdate = 1]}

\* The arrays of states updateDevices is called with, by node.
BulkStates ==
  UNION {{states \in [ns -> UNION {BulkStatesOf(n) : n \in ns}] :
            \A n \in ns : states[n].nodeId = n} :
           ns \in SUBSET Nodes \ {{}}}

\* The registry of a constructed daemon with a snapshot of both nodes or
\* none: bulk updates and the debounced save.
NextBulk ==
  \/ \E states \in BulkStates : UpdateDevices(states)
  \/ SaveTimerFire

SpecBulk == InitPersist /\ [][NextBulk]_vars

\* The poll loop of a started daemon: ticks while the session is up, after
\* a keepalive probe has failed, and around Daemon.stop.
InitPoll ==
  /\ Init /\ devices \in {LoadedSnapshot, NoRegistry.devices}
  /\ gwProducts = {0}
  /\ config.pollingEnabled /\ ~config.publishOnStartup
  /\ config.base = 5 /\ config.max = 5

NextPoll ==
  \/ StartDaemon
  \/ \E ok \in BOOLEAN : MqttConnectReply(ok)
  \/ \E t \in TaskIds, ok \in BOOLEAN : PublishReply(t, ok)
  \/ ExitAfterFailure
  \/ \E t \in TaskIds, ok \in BOOLEAN : LoginReply(t, ok)
  \/ \E t \in TaskIds, ok \in BOOLEAN : EnableReply(t, ok)
  \/ \E t \in TaskIds, ok \in BOOLEAN : ProductsReply(t, ok)
  \/ \E t \in TaskIds, ok \in BOOLEAN, ids \in SceneSets : ScenesReply(t, ok, ids)
  \/ \E t \in TaskIds : LogoutReply(t)
  \/ \E i \in 1 .. MaxRounds, ok \in BOOLEAN : RoundReply(i, ok)
  \/ PollTick
  \/ KeepaliveFire
  \/ \E h \in Handles, ok \in BOOLEAN : KeepaliveReply(h, ok)
  \/ SaveTimerFire
  \/ Signal
  \/ MqttEndReply

SpecPoll == InitPoll /\ [][NextPoll]_vars

\* The session under keepalive failures, reconnect attempts and forced
\* reconnections together, without a shutdown.
InitAttempts ==
  /\ Init /\ devices = LoadedSnapshot
  /\ ~gwStable /\ ~config.pollingEnabled /\ ~config.publishOnStartup
  /\ ~config.autoDiscovery /\ config.base = 5 /\ config.max = 5
  /\ gwProducts = {0}

NextAttempts ==
  \/ StartDaemon
  \/ MqttConnectReply(TRUE)
  \/ \E t \in TaskIds : PublishReply(t, TRUE)
  \/ \E t \in TaskIds : LoginReply(t, TRUE)
  \/ \E t \in TaskIds : EnableReply(t, TRUE)
  \/ \E t \in TaskIds : ProductsReply(t, TRUE)
  \/ \E t \in TaskIds : ScenesReply(t, TRUE, {0})
  \/ \E t \in TaskIds : LogoutReply(t)
  \/ KeepaliveFire
  \/ \E h \in Handles, ok \in BOOLEAN : KeepaliveReply(h, ok)
  \/ \E orphan \in BOOLEAN : ReconnectTimerFire(orphan)
  \* the command arrives while a timer callback is running
  \/ /\ \E t \in AttemptIds : tasks[t].pc # "idle"
     /\ \A t \in ForcedIds : tasks[t].pc = "idle"
     /\ GlobalReconnect

SpecAttempts == InitAttempts /\ [][NextAttempts]_vars

\* The daemon on a stable gateway whose MQTT client loses the broker and
\* reconnects.
InitBroker ==
  /\ Init /\ devices = LoadedSnapshot
  /\ gwStable /\ ~config.pollingEnabled /\ config.autoDiscovery
  /\ config.max = 5

NextBroker ==
  \/ StartDaemon
  \/ MqttConnectReply(TRUE)
  \/ \E t \in TaskIds : PublishReply(t, TRUE)
  \/ \E t \in TaskIds : LoginReply(t, TRUE)
  \/ \E t \in TaskIds : EnableReply(t, TRUE)
  \/ \E t \in TaskIds : ProductsReply(t, TRUE)
  \/ \E t \in TaskIds, ids \in SceneSets : ScenesReply(t, TRUE, ids)
  \/ \E i \in 1 .. MaxRounds : RoundReply(i, TRUE)
  \/ KeepaliveFire
  \/ \E h \in Handles : KeepaliveReply(h, TRUE)
  \* the broker loses a client whose status is `online`
  \/ bus.retained = "online" /\ MqttClose
  \/ MqttReconnect

FairBroker ==
  /\ WF_vars(StartDaemon)
  /\ WF_vars(MqttConnectReply(TRUE))
  /\ WF_vars(\E t \in TaskIds : PublishReply(t, TRUE))
  /\ WF_vars(\E t \in TaskIds : LoginReply(t, TRUE))
  /\ WF_vars(\E t \in TaskIds : EnableReply(t, TRUE))
  /\ WF_vars(\E t \in TaskIds : ProductsReply(t, TRUE))
  /\ WF_vars(\E t \in TaskIds, ids \in SceneSets : ScenesReply(t, TRUE, ids))
  /\ WF_vars(\E i \in 1 .. MaxRounds : RoundReply(i, TRUE))
  /\ WF_vars(KeepaliveFire)
  /\ WF_vars(\E h \in Handles : KeepaliveReply(h, TRUE))
  /\ WF_vars(MqttReconnect)

SpecBroker == InitBroker /\ [][NextBroker]_vars /\ FairBroker

\* Startup, discovery and property changes on a stable gateway with the
\* bridge connected throughout: the broker acknowledges every publication.
NextSettle ==
  \/ StartDaemon
  \/ MqttConnectReply(TRUE)
  \/ \E t \in TaskIds : PublishReply(t, TRUE)
  \/ \E t \in TaskIds : LoginReply(t, TRUE)
  \/ \E t \in TaskIds : EnableReply(t, TRUE)
  \/ \E t \in TaskIds : ProductsReply(t, TRUE)
  \/ \E t \in TaskIds, ids \in SceneSets : ScenesReply(t, TRUE, ids)
  \/ \E n \in Nodes, raw \in RawPositions : PropertyChanged(n, raw)
  \/ \E i \in 1 .. MaxRounds : RoundReply(i, TRUE)

SpecSettle == InitDevices /\ [][NextSettle]_vars

\* Property changes on a stable gateway while the MQTT client loses the
\* broker and reconnects; nothing is published at discovery.
InitStale ==
  /\ Init /\ devices = LoadedSnapshot
  /\ gwStable /\ gwProducts = {0, 1}
  /\ config.autoDiscovery /\ ~config.pollingEnabled
  /\ ~config.publishOnStartup /\ config.max = 5

NextStale ==
  \/ StartDaemon
  \/ MqttConnectReply(TRUE)
  \/ \E t \in TaskIds : PublishReply(t, TRUE)
  \/ \E t \in TaskIds : LoginReply(t, TRUE)
  \/ \E t \in TaskIds : EnableReply(t, TRUE)
  \/ \E t \in TaskIds : ProductsReply(t, TRUE)
  \/ \E t \in TaskIds, ids \in SceneSets : ScenesReply(t, TRUE, ids)
  \/ \E n \in Nodes, raw \in RawPositions : PropertyChanged(n, raw)
  \/ \E i \in 1 .. MaxRounds : RoundReply(i, TRUE)
  \/ KeepaliveFire
  \/ \E h \in Handles : KeepaliveReply(h, TRUE)
  \* the broker loses a client whose status is `online`
  \/ bus.retained = "online" /\ MqttClose
  \/ MqttReconnect

FairStale ==
  /\ WF_vars(StartDaemon)
  /\ WF_vars(MqttConnectReply(TRUE))
  /\ WF_vars(\E t \in TaskIds : PublishReply(t, TRUE))
  /\ WF_vars(\E t \in TaskIds : LoginReply(t, TRUE))
  /\ WF_vars(\E t \in TaskIds : EnableReply(t, TRUE))
  /\ WF_vars(\E t \in TaskIds : ProductsReply(t, TRUE))
  /\ WF_vars(\E t \in TaskIds, ids \in SceneSets : ScenesReply(t, TRUE, ids))
  /\ WF_vars(\E i \in 1 .. MaxRounds : RoundReply(i, TRUE))
  /\ WF_vars(KeepaliveFire)
  /\ WF_vars(\E h \in Handles : KeepaliveReply(h, TRUE))
  /\ WF_vars(MqttReconnect)

SpecStale == InitStale /\ [][NextStale]_vars /\ FairStale

(* ------------------------------- claims --------------------------------- *)
\* The places of the events of a name, and of the log lines of a message,
\* of the last step.
Events(name) == {i \in 1 .. Len(ev) : ev[i][1] = name}

LogLines(msg) == {i \in 1 .. Len(log) : log[i][1] = msg}

Scheduling == "Scheduling reconnection attempt"

\* The session is usable: Connected on a Connection that is logged in, with
\* the devices and scenes discovered on it.
SessionUp ==
  /\ connected /\ connection \in gwSessions
  /\ products # NoProducts /\ scenes # NoScenes

\* A keepalive probe has just failed on the running daemon, startup over,
\* and the session has left Connected.
KeepaliveLost ==
  /\ last.op = "keepaliveReply" /\ ~last.ok /\ Events("disconnected") # {}
  /\ ~shuttingDown /\ tasks["start"].pc = "done"

\* C1: after a keepalive failure while not shutting down, on a gateway that
\* from some point on accepts login and discovery, the session eventually is
\* Connected again with devices and scenes rediscovered.
C1_EventuallyReconnected == KeepaliveLost ~> SessionUp

\* C2: whenever connect() fails and close() has not been called, at startup
\* and in a forced reconnect too, the session is Reconnecting with a backoff
\* attempt scheduled, and the daemon keeps running.
C2_ConnectFailureSchedulesRetry ==
  (LogLines("Failed to connect") # {} /\ ~shuttingDown)
    => /\ reconnecting /\ reconnectTimer = "live"
       /\ tasks["start"].pc # "failed" /\ ~exited

\* C3: every scheduling of a reconnect raises the attempt counter n by one
\* (up to the counter's bound), arms the timer with min(base * 2^(n-1), max),
\* for base 5 and max 60 the delays 5, 10, 20, 40, 60, 60, never less than
\* the delay of the attempt before; n goes back to 0 only in a step in which
\* connect() establishes a session.
C3_Backoff ==
  [][/\ \A i \in 1 .. Len(log') :
          log'[i][1] = Scheduling =>
            LET n == log'[i][2]
                d == log'[i][3]
                before == IF \E j \in 1 .. Len(ev') : ev'[j][1] = "connected"
                            THEN 0 ELSE reconnectAttempt
            IN /\ before < AttemptCap => n = before + 1
               /\ n >= 1 /\ reconnectAttempt' = n
               /\ d = Min(config.base * 2 ^ (n - 1), config.max)
               /\ reconnectDelay' = d /\ reconnectTimer' = "live"
               /\ (config.base = 5 /\ config.max = 60)
                    => d = <<5, 10, 20, 40, 60, 60>>[n]
               /\ before >= 1
                    => d >= Min(config.base * 2 ^ (before - 1), config.max)
     /\ reconnectAttempt' < reconnectAttempt
          => \E j \in 1 .. Len(ev') : ev'[j][1] = "connected"
     /\ (reconnectAttempt' # reconnectAttempt
           /\ \A i \in 1 .. Len(log') : log'[i][1] # Scheduling)
          => reconnectAttempt' = 0 /\ connected'
    ]_vars

\* Six schedulings in a row without a session in between, base 5 and max 60.
C3_Witness ==
  /\ config.base = 5 /\ config.max = 60
  /\ reconnectAttempt = 6 /\ reconnectDelay = 60 /\ reconnectTimer = "live"
  /\ LogLines(Scheduling) # {}

\* C4: a keepalive probe that fails while the session is Connected and not
\* shutting down makes the session leave Connected, emit `disconnected`
\* exactly once, stop the keepalive timer and schedule exactly one reconnect
\* attempt; during shutdown the failure emits and schedules nothing.
C4_KeepaliveFailure ==
  [][(last'.op = "keepaliveReply" /\ ~last'.ok) =>
       IF shuttingDown
         THEN /\ ev' = <<>>
              /\ \A i \in 1 .. Len(log') : log'[i][1] # Scheduling
              /\ reconnectTimer' = reconnectTimer
         ELSE connected =>
                /\ ~connected'
                /\ Cardinality({i \in 1 .. Len(ev') :
                                  ev'[i][1] = "disconnected"}) = 1
                /\ ~keepaliveTimer'
                /\ Cardinality({i \in 1 .. Len(log') :
                                  log'[i][1] = Scheduling}) = 1
                /\ reconnectTimer' = "live"
    ]_vars

\* C5: once disconnect() has returned in a shutdown the session is not
\* Connected, emits no `connected` event and has neither keepalive nor
\* reconnect timer armed.
C5_ClosedStaysClosed ==
  tasks["stop"].pc \in {"offline", "end", "done"}
    => /\ ~connected /\ Events("connected") = {}
       /\ ~keepaliveTimer /\ reconnectTimer # "live" /\ orphanTimers = 0

\* C6: at most one gateway session is logged in at a time, and it is the one
\* the session manager refers to: no interleaving of automatic reconnects,
\* forced reconnects and close() leaves two Connections logged in, or one
\* logged in that nothing refers to.
C6_OneSession ==
  /\ Cardinality(gwSessions) <= 1
  /\ gwSessions \subseteq {connection}

\* The topics a publication of the devices ns covers.
AllTopics(ns) == {<<n, k>> : n \in ns, k \in {"state", "position", "moving"}}

Items(seq) == {seq[i] : i \in 1 .. Len(seq)}

\* C7: a reconnect attempt whose connect() succeeds goes on to rediscover
\* the devices and then the scenes; the rediscovered devices replace the
\* product list and, with publishOnStartup, a publication of state,
\* position and moving of every one of them is started, which, run to its
\* end on a connected bridge, has published them all; the attempt ends
\* with devices and scenes rediscovered.
C7_RediscoveryAfterReconnect ==
  /\ (last.op = "enableReply" /\ last.ok /\ last.t \in AttemptIds)
       => /\ connected /\ connection # Null
          /\ req = <<<<"createProducts", connection, NoId, NoId>>>>
  /\ (last.op = "productsReply" /\ last.ok /\ last.t \in AttemptIds)
       => /\ products.nodes = gwProducts /\ products.conn # Null
          /\ ev = <<<<"devicesDiscovered", gwProducts, "">>>>
          /\ (config.publishOnStartup /\ mqttConnected)
               => /\ pub # <<>>
                  /\ \A i \in 1 .. Len(pub) : pub[i][1][1] = "state"
                  /\ \E i \in 1 .. Len(rounds) :
                       /\ rounds[i].src = last.t
                       /\ Items(rounds[i].all) = AllTopics(gwProducts)
          /\ ~config.publishOnStartup => pub = <<>>
          /\ connected => req = <<<<"createScenes", connection, NoId, NoId>>>>
  /\ (last.op = "scenesReply" /\ last.ok /\ last.t \in AttemptIds)
       => /\ products # NoProducts /\ scenes # NoScenes
          /\ Events("scenesDiscovered") # {}
          /\ ~reconnecting /\ tasks[last.t].pc = "idle"
  /\ (last.op = "roundReply" /\ last.ok /\ last.round # NoRound
        /\ last.round.src \in AttemptIds /\ ~last.round.dropped
        /\ last.round.all[1][2] = "state")
       => \E ns \in NodeSets : last.round.sent = AllTopics(ns)

\* After a reconnect the publication of both devices has run to its end.
C7_Witness ==
  /\ last.op = "roundReply" /\ last.ok /\ last.round.src \in AttemptIds
  /\ ~last.round.dropped /\ last.round.sent = AllTopics({0, 1})

\* C8: for each node at most one setTargetPosition or stop is in flight at
\* the gateway at any time.
C8_OneCommandPerNode ==
  \A n \in Nodes :
    Cardinality({c \in cmds : c[1] \in {"setTargetPosition", "stop"}
                               /\ c[3] = n}) <= 1

\* C9: a discovery request is issued only by a Connected session, on its
\* Connection; a setTargetPosition, stop or run only by a Connected session
\* for an id of the last discovery; a device or scene command goes through
\* exactly in that case, and otherwise fails, with an error published and
\* no request to the gateway.
C9_RequestsGuarded ==
  /\ \A i \in 1 .. Len(req) :
       LET r == req[i]
       IN /\ r[1] \in {"createProducts", "createScenes"}
               => connected /\ r[2] # Null /\ r[2] = connection
          /\ r[1] \in {"setTargetPosition", "stop"}
               => /\ connected /\ products # NoProducts
                  /\ r[3] \in products.nodes /\ r[2] = products.conn
          /\ r[1] = "run"
               => /\ connected /\ scenes # NoScenes
                  /\ r[3] \in scenes.ids /\ r[2] = scenes.conn
  /\ last.op = "deviceCommand"
       => /\ last.ok <=> (connected /\ products # NoProducts
                            /\ last.id \in products.nodes)
          /\ ~last.ok => /\ req = <<>>
                         /\ LogLines("Failed to execute device command") # {}
                         /\ pub = <<<<<<"errors", NoId>>, "Command failed">>>>
  /\ last.op = "sceneCommand"
       => /\ last.ok <=> (connected /\ scenes # NoScenes
                            /\ last.id \in scenes.ids)
          /\ ~last.ok => /\ req = <<>>
                         /\ LogLines("Failed to execute scene command") # {}
                         /\ pub = <<<<<<"errors", NoId>>, "Scene failed">>>>

\* A command for a known node is refused while the session is reconnecting.
C9_Witness ==
  /\ last.op = "deviceCommand" /\ ~last.ok /\ req = <<>>
  /\ ~connected /\ reconnecting /\ last.id \in gwProducts

\* The gateway call of a device command: operation and raw position in
\* hundredths.
CallOf(c) ==
  CASE c.kind = "open" -> <<"setTargetPosition", 0>>
    [] c.kind = "close" -> <<"setTargetPosition", 100>>
    [] c.kind = "stop" -> <<"stop", NoId>>
    [] c.kind = "position" ->
         <<"setTargetPosition",
           100 - (IF c.value < 0 THEN 0 ELSE IF c.value > 100 THEN 100
                  ELSE c.value)>>

\* C10 as stated: every device command makes exactly one gateway call, open
\* raw 0.0, close raw 1.0, stop a stop, an integer c raw 1 - c/100; every
\* scene command makes exactly one run.
C10_ExactlyOneCall ==
  /\ last.op = "deviceCommand"
       => /\ Len(req) = 1
          /\ <<req[1][1], req[1][3], req[1][4]>>
               = <<CallOf(last.cmd)[1], last.id, CallOf(last.cmd)[2]>>
  /\ last.op = "sceneCommand"
       => /\ Len(req) = 1
          /\ <<req[1][1], req[1][3]>> = <<"run", last.id>>

\* C10 amended: a device command for a discovered node on a Connected
\* session makes exactly that one gateway call, a scene command for a
\* discovered scene exactly one run; any other command makes none.
C10_OneCallWhenConnected ==
  /\ last.op = "deviceCommand"
       => IF connected /\ products # NoProducts /\ last.id \in products.nodes
            THEN /\ Len(req) = 1
                 /\ req[1] = <<CallOf(last.cmd)[1], products.conn, last.id,
                               CallOf(last.cmd)[2]>>
            ELSE req = <<>>
  /\ last.op = "sceneCommand"
       => IF connected /\ scenes # NoScenes /\ last.id \in scenes.ids
            THEN req = <<<<"run", scenes.conn, last.id, NoId>>>>
            ELSE req = <<>>

\* A position command for a discovered node has reached the gateway.
C10_Witness ==
  /\ last.op = "deviceCommand" /\ last.cmd.kind = "position" /\ last.ok
  /\ Len(req) = 1 /\ req[1][4] = 100 - last.cmd.value

\* A decimal numeral, and the number it denotes.
Numeral(str) == str # <<>> /\ \A i \in 1 .. Len(str) : IsDigit(str[i])

RECURSIVE NumeralValue(_)
NumeralValue(str) ==
  IF str = <<>> THEN 0
  ELSE 10 * NumeralValue(SubSeq(str, 1, Len(str) - 1))
         + DigitValue(str[Len(str)])

\* The payload is open, close or stop (whatever its case, with white space
\* around it) on the cmd topic, or a numeral of an integer in [0,100].
ValidPayload(msg) ==
  \/ /\ msg.leaf = "cmd"
     /\ trim(toLowerCase(msg.payload)) \in {Str("open"), Str("close"), Str("stop")}
  \/ /\ Numeral(trim(msg.payload))
     /\ NumeralValue(trim(msg.payload)) \in 0 .. 100

\* C11: a message on devices/<n>/cmd or devices/<n>/position/set makes the
\* bridge emit at most one deviceCommand, for node n, with open, close or
\* stop (cmd topic only) or with an integer in [0,100]; a payload that is
\* neither makes it emit no event and makes no gateway call.
C11_OnlyValidCommands ==
  last.op = "message"
    => /\ Cardinality(Events("deviceCommand")) <= 1
       /\ \A i \in Events("deviceCommand") :
            /\ ev[i][2] = {NumeralValue(last.msg.seg)}
            /\ \/ last.cmd.kind \in {"open", "close", "stop"}
                    /\ last.msg.leaf = "cmd"
               \/ last.cmd.kind = "position" /\ last.cmd.value \in 0 .. 100
       /\ ~ValidPayload(last.msg)
            => Events("deviceCommand") = {} /\ req = <<>>

\* The fields DeviceRegistry compares.
SemanticFields ==
  {"position", "targetPosition", "moving", "online", "error", "name"}

\* C12: updateDevice(d) stores d, sets the dirty flag and emits
\* deviceStateChanged with the previous and the current state iff the
\* registry has no entry for d.nodeId or one of position, targetPosition,
\* moving, online, error, name differs from the entry; otherwise it emits no
\* event and leaves the entries, the dirty flag and the save timer alone.
C12_UpdateIffChanged ==
  [][\A state \in RichStates :
       UpdateDevice(state)
         => LET prev == devices[state.nodeId]
            IN IF prev = NoDevice
                    \/ \E f \in SemanticFields : prev[f] # state[f]
                 THEN /\ devices' = [devices EXCEPT ![state.nodeId] = state]
                      /\ rev' = <<<<"deviceStateChanged", prev, state>>>>
                      /\ dirty' /\ saveTimer'
                 ELSE /\ devices' = devices /\ rev' = <<>>
                      /\ dirty' = dirty /\ saveTimer' = saveTimer]_vars

\* An update that differs from the stored entry in nothing but lastUpdate, or
\* in nothing, was ignored by a registry that has stored another name.
C12_Witness ==
  /\ last.op = "updateDevice" /\ rev = <<>>
  /\ ~dirty /\ ~saveTimer
  /\ devices[0] # NoDevice /\ devices[0].name = "door"

\* The state the gateway's notification of a change of node n to the raw
\* position raw carries.
Notified(n, raw) == productToDeviceState(n, Product(raw, gwDevices[n].stamp + 1))

\* C13: of two consecutive deviceStateChanged notifications of the gateway
\* for one node with equal semantic fields the first, which changes the
\* registry's entry, causes one deviceStateChanged event of the registry and
\* one publication sequence state, position, moving for the node, begun with
\* the state; the second causes no event and no publication.
C13_OneEventOneSequence ==
  [][\A n \in Nodes, raw \in RawPositions :
       PropertyChanged(n, raw)
         => LET state == Notified(n, raw)
                same == \A f \in SemanticFields : devices[n][f] = state[f]
                again == /\ gwDevices[n].stamp >= 1
                         /\ gwDevices[n].CurrentPosition = raw
            IN /\ again => same
               /\ same => rev' = <<>> /\ pub' = <<>> /\ rounds' = rounds
               /\ ~same
                    => /\ rev' = <<<<"deviceStateChanged", devices[n], state>>>>
                       /\ mqttConnected
                            => /\ pub' = <<<<<<"state", n>>, state>>>>
                               /\ Len(rounds') = Len(rounds) + 1
                               /\ LET r == rounds'[Len(rounds')]
                                  IN /\ r.all = DeviceItems(<<n>>)
                                     /\ r.queue = r.all
                                     /\ r.val[n] = state]_vars

\* The second of two equal notifications for node 0 was ignored: what the
\* bus holds for the node is what the first one published, all of its
\* sequence.
C13_Witness ==
  /\ last.op = "propertyChanged" /\ last.id = 0 /\ rev = <<>> /\ pub = <<>>
  /\ gwDevices[0].stamp = 2
  /\ bus.dev[0].state # NoDevice /\ bus.dev[0].state.lastUpdate = 1
  /\ bus.dev[0].position = 50 /\ bus.dev[0].moving = "false"

\* C14: the publications on a device's state topic reach the bus in the
\* order of the registry updates whose states they carry: no publication
\* carries a state older than the one published before it on the topic, so
\* that the topic holds the state of the latest update.
C14_PublishedInUpdateOrder ==
  [][\A n \in Nodes :
       bus.dev[n].state # NoDevice
         => bus'.dev[n].state.lastUpdate >= bus.dev[n].state.lastUpdate]_vars

\* C15: the first message on the status topic is `online`, published in the
\* step in which the connection to the broker succeeds; no device or scene
\* publication and no `offline` precedes it.
C15_OnlineFirst ==
  [][/\ bus'.first \in {"", "online"}
     /\ ~bus'.early
     /\ bus.first = "" /\ bus'.first # ""
          => /\ last'.op = "mqttConnect" /\ last'.ok /\ last'.t = "start"
             /\ mqttConnected'
             /\ pub' = <<<<<<"status", NoId>>, "online">>>>]_vars

\* Devices have been published and the daemon has been stopped: the status
\* topic went from `online` to `offline`.
C15_Witness ==
  /\ bus.first = "online" /\ bus.status = "offline"
  /\ bus.dev[0].state # NoDevice
  /\ tasks["stop"].pc = "done"

\* C16: after the `offline` of the shutdown the bridge hands no further
\* message to the broker, on any topic.
C16_OfflineIsLast == bus.late = {}

\* C17: when Daemon.stop has completed, every step of it done, on a bridge
\* that had published `online`, the last message on the status topic is
\* `offline`.
C17_OfflineRetained ==
  tasks["stop"].pc = "done" /\ ~mqttClient /\ bus.first = "online"
    => bus.status = "offline"

\* The publications of the last step on the status topic with a payload.
Status(payload) ==
  {i \in 1 .. Len(pub) : pub[i] = <<<<"status", NoId>>, payload>>}

C19_StopRunsAllSteps ==
  /\ tasks["stop"].pc # "failed"
  /\ tasks["stop"].pc = "done"
       => /\ ~pollingTimer /\ ~running
          /\ shuttingDown /\ ~keepaliveTimer
          /\ ~mqttClient
          /\ ~saveTimer

\* The configuration misses the host or the password, or its port or its
\* quality of service is out of range.
Invalid ==
  \/ config.host = "" \/ config.password = ""
  \/ config.port \notin 1 .. 65535
  \/ config.qos \notin {0, 1, 2}

\* The last step handed the request op to the gateway library.
Asked(op) == \E i \in 1 .. Len(req) : req[i][1] = op

\* C20: startup goes from the validation of the configuration to the
\* connection to the broker, the publication of `online`, the connection to
\* the gateway, the discovery (with autoDiscovery) and the start of polling
\* (when enabled), each step begun by the success of the one before it; a
\* failed step fails the startup and nothing follows it; with an invalid
\* configuration no connection to the broker or the gateway is opened.
C20_StartupOrdered ==
  /\ Invalid
       => /\ tasks["start"].pc \in {"main", "failed"}
          /\ ~running /\ ~mqttClient /\ ~mqttConnected
          /\ connection = Null /\ gwSessions = {}
          /\ req = <<>> /\ pub = <<>> /\ bus = NoBus
  /\ mqttClient => tasks["start"].pc \notin {"main", "init"}
  /\ bus.first # "" => bus.first = "online" /\ mqttConnected
  /\ Asked("login")
       => /\ last.op = "publishReply" /\ last.ok /\ last.t = "start"
          /\ bus.first = "online"
  /\ Asked("enableHouseStatusMonitor") => last.op = "loginReply" /\ last.ok
  /\ Asked("createProducts") /\ last.t = "start"
       => /\ last.op = "enableReply" /\ last.ok
          /\ config.autoDiscovery /\ connected
  /\ Asked("createScenes")
       => /\ last.op = "productsReply" /\ last.ok /\ last.t = "start"
          /\ products # NoProducts
  /\ pollingTimer => config.pollingEnabled /\ tasks["start"].pc = "done"
  /\ tasks["start"].pc = "done"
       => /\ connected /\ bus.first = "online"
          /\ pollingTimer = config.pollingEnabled
          /\ config.autoDiscovery => products # NoProducts /\ scenes # NoScenes
  /\ last.t = "start" /\ ~last.ok
       => tasks["start"].pc = "failed" /\ req = <<>>
  /\ tasks["start"].pc = "failed" => ~pollingTimer /\ ~Asked("login")

\* Startup has gone through all of its steps, discovery and polling
\* included.
C20_Witness ==
  /\ tasks["start"].pc = "done" /\ pollingTimer
  /\ config.autoDiscovery /\ scenes # NoScenes
  /\ config.port = 65535 /\ config.qos = 2

\* The last step was a device or scene command that failed: refused before
\* any gateway call, or rejected by the gateway.
CommandFailed ==
  /\ last.op \in {"deviceCommand", "sceneCommand", "commandReply"}
  /\ ~last.ok

\* C21: the step in which a device or scene command fails publishes exactly
\* one error record, on {prefix}/errors, and leaves the session and the
\* registry as they are: connection, connected flag, keepalive and reconnect
\* timers, reconnect counter, product and scene lists, registry contents.
C21_CommandErrorLeavesSession ==
  [][CommandFailed'
       => /\ Len(pub') = 1 /\ pub'[1][1] = <<"errors", NoId>>
          /\ pub'[1][2] \in {"Command failed", "Scene failed"}
          /\ req' = <<>> /\ ev' = <<>> /\ rev' = <<>>
          /\ UNCHANGED <<klfVars, registryVars, gwSessions, tasks, rounds>>]_vars

\* The gateway has rejected a command on a session that is connected: the
\* session is still connected, its keepalive armed.
C21_Witness ==
  /\ last.op = "commandReply" /\ ~last.ok
  /\ connected /\ keepaliveTimer /\ reconnectTimer = "null"
  /\ pub = <<<<<<"errors", NoId>>, "Command failed">>>>


\* C22: while file writes succeed, a registry that is dirty is eventually
\* written by the debounce timer with no further call, the file then holds
\* the registry as it is at the write, and no more than one save timer is
\* armed at any time.
C22_DebouncedSave ==
  /\ [](saveTimers <= 1)
  /\ (dirty ~> (/\ last.op = "saveTimer" /\ last.ok /\ ~dirty
                /\ file = Stringify(Cur)))

C22_Witness ==
  /\ last.op = "saveTimer" /\ last.ok
  /\ Len(log) = 1 /\ log[1][1] = "Persisted data saved"
  /\ file = Stringify(Cur) /\ load(file).devices[0].name = "door"
  /\ ~dirty /\ saveTimers = 0


\* C23: when the save that the debounce timer or flush runs fails (the
\* registry is dirty after it), the failure is logged, no exception leaves
\* flush or the timer callback, and no timer stays armed, so that the next
\* accepted update arms one and the save is tried again.
C23_SaveFailureContained ==
  (last.op \in {"saveTimer", "flush"} /\ dirty)
    => /\ LogLines("Failed to save persisted data") # {}
       /\ LogLines("Uncaught exception") = {}
       /\ last.op = "flush" => last.ok
       /\ ~saveTimer


\* C24: at every instant, a crash in the middle of a save included, the
\* file at the snapshot path is absent or a complete document that load
\* can parse.
C24_SnapshotAlwaysComplete == file.kind \in {"absent", "document"}


\* C25: after a flush that has written the file, no save timer is pending,
\* the registry is clean, and the registry load builds from the file holds
\* the same devices and scenes, ids and field values, as the flushed one.
C25_FlushRoundTrip ==
  (/\ last.op = "flush" /\ last.ok
   /\ LogLines("Persisted data saved") # {})
    => /\ ~saveTimer /\ saveTimers = 0 /\ ~dirty
       /\ load(file).devices = devices
       /\ load(file).scenes = registryScenes

C25_Witness ==
  /\ last.op = "flush" /\ last.ok
  /\ LogLines("Persisted data saved") # {}
  /\ devices[0] = OtherState /\ devices[1] # NoDevice
  /\ registryScenes = SavedScenes
  /\ load(file).devices = devices


\* C26: after the step in which a discovery reports the gateway's devices
\* or scenes, the registry holds exactly the ids of the report: nothing of
\* an earlier discovery or of the loaded snapshot is retained.
C26_RegistryIsLastDiscovery ==
  /\ \A i \in Events("devicesDiscovered") : Stored(Cur) = ev[i][2]
  /\ \A i \in Events("scenesDiscovered") : registryScenes = ev[i][2]


\* C27: an update that differs from the stored entry in nothing but
\* lastUpdate, limitationMin or limitationMax stores the new values as the
\* entry and emits no deviceStateChanged event.
C27_NonSemanticStored ==
  [][\A state \in RichStates :
       (/\ UpdateDevice(state)
        /\ devices[state.nodeId] # NoDevice
        /\ \A f \in SemanticFields : devices[state.nodeId][f] = state[f])
         => /\ devices'[state.nodeId] = state
            /\ rev' = <<>>]_vars


\* C28: getAllDevices returns the devices in ascending order of nodeId,
\* however they were inserted, loaded or updated.
C28_ListAscending ==
  LET list == getAllDevices(Cur)
  IN \A i, j \in 1 .. Len(list) : i < j => list[i].nodeId < list[j].nodeId


\* C29: every device the session has produced and the registry stores has
\* 0 <= limitationMin <= limitationMax <= 100, for the raw limitations of
\* [0, 1] the gateway reports and for the defaults used when it reports
\* none.
C29_LimitationsOrdered ==
  \A n \in Stored(Cur) :
    /\ 0 <= devices[n].limitationMin
    /\ devices[n].limitationMin <= devices[n].limitationMax
    /\ devices[n].limitationMax <= 100

\* C30: every position and targetPosition the registry stores or the bus
\* has been given is an integer of 0 .. 100, whatever raw value the gateway
\* reports.
C30_PositionsInRange ==
  \A n \in Nodes :
    /\ n \in Stored(Cur)
         => /\ devices[n].position \in 0 .. 100
            /\ devices[n].targetPosition \in 0 .. 100
    /\ bus.dev[n].state # NoDevice
         => /\ bus.dev[n].state.position \in 0 .. 100
            /\ bus.dev[n].state.targetPosition \in 0 .. 100


\* C31: klfPositionToPercent(percentToKlfPosition(p)) = p for every integer
\* p of 0 .. 100: a device the registry stores has the percentage that has
\* sent its product to where it is.
C31_RoundTrip ==
  \A n \in Stored(Cur) :
    \A percent \in Percents :
      gwDevices[n] = Commanded(percent) => devices[n].position = percent

C31_Witness ==
  /\ gwDevices[0] = Commanded(37)
  /\ devices[0].position = 37 /\ bus.dev[0].state.position = 37


\* The devices of states that are new to the registry or differ from their
\* entry in a semantic field.
Changed(states) ==
  {n \in DOMAIN states :
     \/ devices[n] = NoDevice
     \/ \E f \in SemanticFields : devices[n][f] # states[n][f]}

\* C32: updateDevices(S) emits one deviceStateChanged, with the previous
\* and the current state, for each device of S that is new or semantically
\* changed, none for another device, and after them one devicesUpdated.
C32_BulkEvents ==
  [][\A states \in BulkStates :
       UpdateDevices(states)
         => /\ Len(rev') = Cardinality(Changed(states)) + 1
            /\ rev'[Len(rev')][1] = "devicesUpdated"
            /\ \A i \in 1 .. Len(rev') - 1 : rev'[i][1] = "deviceStateChanged"
            /\ \A n \in Changed(states) :
                 \E i \in 1 .. Len(rev') - 1 :
                   rev'[i] = <<"deviceStateChanged", devices[n], states[n]>>]_vars

\* A bulk update of two devices of which one has changed: one event for
\* it, then the summary.
C32_Witness ==
  /\ last.op = "updateDevices"
  /\ Len(rev) = 2 /\ rev[1][1] = "deviceStateChanged" /\ rev[1][3].nodeId = 1
  /\ rev[1][2] # NoDevice /\ rev[2][1] = "devicesUpdated"
  /\ devices[0] # NoDevice /\ devices[0].lastUpdate = 0
  /\ devices[1].position = 0


\* C39: updateDevices(S) in which no device is new or semantically changed
\* leaves the dirty flag as it is and arms no save timer.
C39_IdleBulkClean ==
  [][\A states \in BulkStates :
       (UpdateDevices(states) /\ Changed(states) = {})
         => /\ dirty' = dirty
            /\ saveTimer' = saveTimer /\ saveTimers' = saveTimers]_vars


\* A tick that fires while the session is Connected and holds its products
\* applies their states with updateDevices; one that has no products yet
\* asks the gateway for them, or fails and is logged.
TickReads ==
  (PollTick /\ connected)
    => IF products # NoProducts
         THEN /\ rev' # <<>> /\ rev'[Len(rev')][1] = "devicesUpdated"
              /\ \A n \in products.nodes :
                   /\ devices'[n] # NoDevice
                   /\ \A f \in SemanticFields :
                        devices'[n][f] = DeviceStates(products.nodes)[n][f]
         ELSE \/ \E i \in 1 .. Len(req') : req'[i][1] = "createProducts"
              \/ \E i \in 1 .. Len(log') : log'[i][1] = "Polling failed"

\* The products a tick has asked for arrive: their states are applied.
TickApplies ==
  (last'.op = "productsReply" /\ last'.t = "poll" /\ last'.ok)
    => /\ rev' # <<>> /\ rev'[Len(rev')][1] = "devicesUpdated"
       /\ \A n \in gwProducts : devices'[n] # NoDevice

\* A tick that fires while the session is not Connected does nothing.
TickIdle ==
  (PollTick /\ ~connected)
    => /\ UNCHANGED <<klfVars, registryVars, rounds, tasks>>
       /\ req' = <<>> /\ pub' = <<>> /\ log' = <<>> /\ rev' = <<>>

\* A tick that fails leaves the interval timer armed.
TickFailureKeepsTimer ==
  (last'.t = "poll" /\ \E i \in 1 .. Len(log') : log'[i][1] = "Polling failed")
    => pollingTimer' = pollingTimer

\* Once Daemon.stop has cancelled the timer no step of a tick changes the
\* registry.
NoTickAfterStop ==
  (tasks["stop"].pc # "idle" /\ ~pollingTimer /\ last'.t = "poll")
    => UNCHANGED registryVars

\* C33: a poll tick that fires while the session is Connected reads the
\* device states and applies them with updateDevices, a tick that fires
\* while it is not Connected does nothing, a failing tick leaves the timer
\* armed, and once stop() has cancelled the timer no tick modifies the
\* registry.
C33_PollTicks ==
  [][/\ TickReads /\ TickApplies /\ TickIdle /\ TickFailureKeepsTimer
     /\ NoTickAfterStop]_vars


\* C34: whenever isConnected() is true the session holds a connection handle
\* that is not null and is logged in at the gateway.
C34_ConnectedHoldsHandle ==
  connected => (connection # Null /\ connection \in gwSessions)


\* The reconnect attempts that exist: backoff timers that are pending and
\* timer callbacks that have started and not yet returned.
ReconnectAttempts ==
  (IF reconnectTimer = "live" THEN 1 ELSE 0) + orphanTimers
    + Cardinality({t \in AttemptIds : tasks[t].pc # "idle"})

\* C35: at any time at most one reconnect attempt exists, a pending backoff
\* timer or a running attempt callback.
C35_OneAttempt == ReconnectAttempts <= 1


\* The client is connected again after the broker had lost it.
Reconnected == last.op = "mqttReconnect" /\ mqttConnected

\* C36: after the client has lost the broker (the broker publishing the
\* retained will `offline`) and has reconnected with the daemon running, the
\* command subscriptions are re-established and the retained value of
\* {prefix}/status returns to `online`.
C36_BackOnline ==
  Reconnected ~> (bus.subscribed /\ bus.retained = "online")


\* Startup is over and no publication loop is running.
Settled == tasks["start"].pc = "done" /\ rounds = <<>>

\* What the topics of node n hold is the registry's state of n.
TopicsCurrent(n) ==
  /\ \A f \in SemanticFields : bus.dev[n].state[f] = devices[n][f]
  /\ bus.dev[n].position = devices[n].position
  /\ bus.dev[n].moving = (IF devices[n].moving THEN "true" ELSE "false")

\* C37: with the bridge connected throughout, once the publications have
\* ended the last values published on devices/n/state, /position and
\* /moving are those of the registry's current state of n.
C37_TopicsSettle ==
  Settled => \A n \in Nodes : bus.dev[n].state # NoDevice => TopicsCurrent(n)


\* The registry has accepted a change of node n while the bridge had no
\* connection to the broker.
ChangedOffline(n) ==
  /\ last.op = "propertyChanged" /\ last.id = n
  /\ rev # <<>> /\ ~mqttConnected

\* C38: a change of a device's state that the registry accepts while the
\* bridge is disconnected is published once the bridge is connected again:
\* the device's topics come to hold the registry's state.
C38_ChangePublishedLater ==
  \A n \in Nodes : ChangedOffline(n) ~> (mqttConnected /\ TopicsCurrent(n))


\* A publication loop over device topics has returned or has been left by
\* an exception in the last step.
DeviceLoopEnded ==
  /\ last.op = "roundReply" /\ last.round # NoRound
  /\ \A i \in 1 .. Len(last.round.all) :
       \E k \in 1 .. 3 : last.round.all[i][2] = DeviceTopics[k]

\* C40: a publication the broker refuses does not keep the rest of the loop
\* from being published: when a loop over device topics ends, each topic of
\* each of its devices has been handed to the client.
C40_FailureSkipsNothing ==
  DeviceLoopEnded
    => \A i \in 1 .. Len(last.round.all) : last.round.all[i] \in last.round.sent

====
